---- MODULE Spec2Model ----
(***************************************************************************)
(* review-buddy: the failure-analysis orchestration pipeline.              *)
(*                                                                         *)
(* One pull request, analysed by successive invocations of action().      *)
(* The state is the pull request's review list (the only durable state),  *)
(* the position of the running invocation in action(), its local          *)
(* variables, and a log of the calls it made to its collaborators.        *)
(*                                                                         *)
(* JavaScript values are records tagged by a field js, so that null,      *)
(* undefined, strings, Error objects and plain objects can be told apart  *)
(* the way the code tells them apart (truthiness, instanceof Error).      *)
(***************************************************************************)
EXTENDS Integers, Sequences, FiniteSets, TLC

VARIABLES
    pc,               \* position of the invocation inside action()
    invocations,      \* number of invocations started so far
    config,           \* the ActionConfig of this invocation (reviewEvent)
    payloadSha,       \* context.payload.workflow_run.head_sha of this invocation
    headSha,          \* action.ts:25   const headSha
    jobsRes,          \* settled state of getFailedJobs(...)            (Promise.all slot 0)
    checksRes,        \* settled state of getFailedCheckRuns(...)       (Promise.all slot 1)
    statusesRes,      \* settled state of getFailedCommitStatuses(...)  (Promise.all slot 2)
    failedJobs,       \* action.ts:30   failedJobs
    externalFailures, \* action.ts:36   externalFailures
    fingerprint,      \* fingerprint computed in this invocation
    existingFp,       \* fingerprint recovered from the prior reviews
    analysis,         \* action.ts:60   let analysis
    status,           \* the string action() returns
    thrown,           \* the value action() rejects with
    outcome,          \* the branch of action() the invocation ended in
    calls,            \* how often each collaborator was called in this invocation
    lastPost,         \* the last POST .../reviews request of this invocation
    reviews,          \* the pull request's reviews, in creation order
    envReviews,       \* reviews added by other actors so far
    prev,             \* outcome and fingerprint of the previous returned invocation
    posted,           \* fingerprints of the reviews earlier invocations posted, in order
    caught,           \* the error a try / catch of this invocation caught
    probe,            \* a call of one function on its own: arguments and result
    fetch             \* a running getFailedJobs: its loops' position and the request it awaits

vars == <<pc, invocations, config, payloadSha, headSha, jobsRes, checksRes, statusesRes,
          failedJobs, externalFailures, fingerprint, existingFp, analysis, status,
          thrown, outcome, calls, lastPost, reviews, envReviews, prev, posted, caught,
          probe, fetch>>

(***************************************************************************)
(* Bounds of the model.                                                    *)
(***************************************************************************)
MaxInvocations == 3
MaxComments == 2
MaxEnvReviews == 1
MaxRuns == 2
MaxJobs == 2
MaxFailedJobs == 2
MaxExternalFailures == 2
MaxReviews == 3
MaxSummaryLen == 2
MaxCheckRuns == 2
MaxStatuses == 2
MaxTextLen == 3
MaxLimit == 3
MaxEscapedLen == 3

(***************************************************************************)
(* JavaScript values.                                                      *)
(***************************************************************************)
Undefined == [js |-> "undefined"]
NullV == [js |-> "null"]
Str(s) == [js |-> "string", value |-> s]
Num(n) == [js |-> "number", value |-> n]
ErrorObj(m) == [js |-> "Error", message |-> m]
Arr(items) == [js |-> "array", items |-> items]

\* JavaScript truthiness of a value: undefined, null and '' are falsy.
Truthy(v) ==
    CASE v.js = "undefined" -> FALSE
      [] v.js = "null" -> FALSE
      [] v.js = "string" -> v.value # ""
      [] v.js = "number" -> v.value # 0
      [] OTHER -> TRUE

\* String(v) for the values a rejection can carry.
StringOf(v) ==
    CASE v.js = "undefined" -> "undefined"
      [] v.js = "null" -> "null"
      [] v.js = "string" -> v.value
      [] v.js = "Error" -> v.message
      [] OTHER -> "[object Object]"

\* A settled promise.
Resolved(v) == [settled |-> "resolved", value |-> v]
Rejected(e) == [settled |-> "rejected", value |-> e]
Pending == [settled |-> "pending", value |-> Undefined]


(***************************************************************************)
(* schema: the validated shape of the model's answer.                      *)
(* A raw (parsed JSON) comment is a record of JavaScript values; zod       *)
(* strips unknown keys and returns plain validated data.                   *)
(***************************************************************************)
Confidences == {"high", "medium", "low"}

\* reviewCommentSchema: path string, line positive integer, side literal
\* 'RIGHT', body string.
\* Variant: a comment schema that takes any string as side.
reviewCommentSchemaAnySide(c) ==
    /\ c.path.js = "string"
    /\ c.line.js = "number" /\ c.line.value > 0
    /\ c.side.js = "string"
    /\ c.body.js = "string"

\* Variant: a comment schema that takes any number as line.
reviewCommentSchemaAnyLine(c) ==
    /\ c.path.js = "string"
    /\ c.line.js = "number"
    /\ c.side.js = "string" /\ c.side.value = "RIGHT"
    /\ c.body.js = "string"

reviewCommentSchemaOk(c) ==
    /\ c.path.js = "string"
    /\ c.line.js = "number" /\ c.line.value > 0
    /\ c.side.js = "string" /\ c.side.value = "RIGHT"
    /\ c.body.js = "string"

reviewCommentData(c) ==
    [path |-> c.path.value, line |-> c.line.value, side |-> c.side.value,
     body |-> c.body.value]

\* geminiReviewResponseSchema.safeParse(raw): all-or-nothing.
geminiReviewResponseSchemaOk(raw) ==
    /\ raw.js = "object"
    /\ raw.summary.js = "string"
    /\ \A i \in 1..Len(raw.comments) : reviewCommentSchemaOk(raw.comments[i])
    /\ raw.confidence.js = "string" /\ raw.confidence.value \in Confidences

\* The issues zod reports: one for each key that does not fit.
reviewCommentSchemaIssues(c, i) ==
    {[key |-> "comments", index |-> i, field |-> "path"] :
        x \in {n \in {1} : c.path.js # "string"}}
    \cup {[key |-> "comments", index |-> i, field |-> "line"] :
            x \in {n \in {1} : ~(c.line.js = "number" /\ c.line.value > 0)}}
    \cup {[key |-> "comments", index |-> i, field |-> "side"] :
            x \in {n \in {1} : ~(c.side.js = "string" /\ c.side.value = "RIGHT")}}
    \cup {[key |-> "comments", index |-> i, field |-> "body"] :
            x \in {n \in {1} : c.body.js # "string"}}

geminiReviewResponseSchemaIssues(raw) ==
    {[key |-> "summary", index |-> 0, field |-> ""] :
        x \in {n \in {1} : raw.summary.js # "string"}}
    \cup UNION {reviewCommentSchemaIssues(raw.comments[i], i) : i \in 1..Len(raw.comments)}
    \cup {[key |-> "confidence", index |-> 0, field |-> ""] :
            x \in {n \in {1} : ~(raw.confidence.js = "string"
                                 /\ raw.confidence.value \in Confidences)}}

geminiReviewResponseData(raw) ==
    [js |-> "object",
     summary |-> raw.summary.value,
     comments |-> [i \in 1..Len(raw.comments) |-> reviewCommentData(raw.comments[i])],
     confidence |-> raw.confidence.value]

(***************************************************************************)
(* gemini: GeminiClient.analyzeFailure.  The text of a response is         *)
(* modelled by its form: what JSON.parse, the escape repair and the fenced *)
(* block extraction make of it.  A text of form "chars" is spelled out:    *)
(* its characters are given, and the three are computed from them.         *)
(***************************************************************************)
TextForms == {"json", "json-invalid-escapes", "fenced-json", "fenced-garbage", "prose"}

\* The characters of a spelled-out text.  OpenToken stands for {"summary":"
\* and CloseToken for ","comments":[...],"confidence":"..."} .
\* Fence stands for the three backticks of a code fence.
Fence == "<fence>"
Tag == "json"
Newline == "\n"
Backslash == "\\"
Quote == "\""
OpenToken == "{\"summary\":\""
CloseToken == "\",\"comments\":[...],\"confidence\":\"...\"}"

\* The characters that make a legal JSON escape when they follow a backslash,
\* among the characters of the model: " \ n (of " \ / b f n r t u).
LegalEscapes == {Quote, Backslash, "n"}

\* The regular expression of sanitizeJsonEscapes, \\([^"\\/bfnrtu]), replaced
\* globally by $1: scanning from the left, a backslash followed by a
\* character that does not begin like a legal escape loses the backslash,
\* and the scan goes on after the two.
RECURSIVE SanitizeChars(_)
SanitizeChars(chars) ==
    IF chars = <<>> THEN <<>>
    ELSE IF Len(chars) >= 2 /\ chars[1] = Backslash
            /\ chars[2] \notin LegalEscapes \cup {CloseToken}
         THEN <<chars[2]>> \o SanitizeChars(SubSeq(chars, 3, Len(chars)))
         ELSE <<chars[1]>> \o SanitizeChars(Tail(chars))

\* String.prototype.trim, and the white space JSON.parse skips around a value.
RECURSIVE TrimStart(_)
TrimStart(chars) ==
    IF chars # <<>> /\ Head(chars) = Newline THEN TrimStart(Tail(chars)) ELSE chars

RECURSIVE TrimEnd(_)
TrimEnd(chars) ==
    IF chars # <<>> /\ chars[Len(chars)] = Newline
    THEN TrimEnd(SubSeq(chars, 1, Len(chars) - 1)) ELSE chars

Trim(chars) == TrimEnd(TrimStart(chars))

\* The characters between the quotes of a JSON string: every backslash starts
\* a legal escape, and no quote, line break or structure is left bare.
RECURSIVE StringBodyOk(_)
StringBodyOk(body) ==
    IF body = <<>> THEN TRUE
    ELSE IF Head(body) = Backslash
         THEN Len(body) >= 2 /\ body[2] \in LegalEscapes
              /\ StringBodyOk(SubSeq(body, 3, Len(body)))
         ELSE Head(body) \notin {Quote, Newline, OpenToken, CloseToken}
              /\ StringBodyOk(Tail(body))

\* What the escapes of a JSON string stand for.
RECURSIVE DecodeString(_)
DecodeString(body) ==
    IF body = <<>> THEN <<>>
    ELSE IF Head(body) = Backslash
         THEN <<IF body[2] = "n" THEN Newline ELSE body[2]>>
              \o DecodeString(SubSeq(body, 3, Len(body)))
         ELSE <<Head(body)>> \o DecodeString(Tail(body))

StringBody(chars) == SubSeq(Trim(chars), 2, Len(Trim(chars)) - 1)

CharsParse(chars) ==
    LET t == Trim(chars) IN
    /\ Len(t) >= 2
    /\ Head(t) = OpenToken
    /\ t[Len(t)] = CloseToken
    /\ StringBodyOk(StringBody(chars))

\* The match of /```(?:json)?\s*([\s\S]*?)```/ : behind the first fence, an
\* optional tag and white space, the characters up to the next fence (lazy).
FirstFence(chars) ==
    IF \E i \in 1..Len(chars) : chars[i] = Fence
    THEN CHOOSE i \in 1..Len(chars) :
            chars[i] = Fence /\ \A j \in 1..(i - 1) : chars[j] # Fence
    ELSE 0

FenceMatch(chars) ==
    LET open == FirstFence(chars)
        behind == SubSeq(chars, open + 1, Len(chars))
        close == FirstFence(behind)
        inside == SubSeq(behind, 1, close - 1)
        untagged == IF inside # <<>> /\ Head(inside) = Tag THEN Tail(inside) ELSE inside
    IN IF open = 0 \/ close = 0 THEN [matched |-> FALSE, group |-> <<>>]
       ELSE [matched |-> TRUE, group |-> TrimStart(untagged)]

\* sanitizeJsonEscapes: drops the backslash of an escape JSON does not know.
sanitizeJsonEscapes(text) ==
    CASE text.form = "chars" -> [text EXCEPT !.chars = SanitizeChars(text.chars)]
      [] text.form = "json-invalid-escapes" -> [text EXCEPT !.form = "json"]
      [] OTHER -> text

\* JSON.parse succeeds on well-formed JSON only.
JsonParses(text) ==
    IF text.form = "chars" THEN CharsParse(text.chars) ELSE text.form = "json"

\* The value JSON.parse returns for a text it parses.
JsonValue(text) ==
    IF text.form = "chars"
    THEN [js |-> "object",
          summary |-> Str(DecodeString(StringBody(text.chars))),
          comments |-> text.rest.comments,
          confidence |-> text.rest.confidence]
    ELSE text.raw

\* jsonMatch?.[1] ... .trim(): the contents of the first fenced block, null
\* when nothing matches or the group is empty.
FencedBlock(text) ==
    CASE text.form = "chars" ->
            LET m == FenceMatch(text.chars) IN
            IF m.matched /\ m.group # <<>>
            THEN [text EXCEPT !.chars = Trim(m.group)] ELSE NullV
      [] text.form = "fenced-json" -> [text EXCEPT !.form = "json"]
      [] text.form = "fenced-garbage" -> [text EXCEPT !.form = "prose"]
      [] OTHER -> NullV

\* The try / catch cascade of analyzeFailure: the text as it is, the text
\* with its escapes repaired, the repaired contents of a fenced block.  The
\* last JSON.parse stands outside every try.
parseResponseText(text) ==
    IF JsonParses(text) THEN Resolved(JsonValue(text))
    ELSE IF JsonParses(sanitizeJsonEscapes(text))
         THEN Resolved(JsonValue(sanitizeJsonEscapes(text)))
    ELSE LET block == FencedBlock(text) IN
         IF block.js = "null"
         THEN Rejected(ErrorObj("Failed to parse Gemini response as JSON"))
         ELSE IF JsonParses(sanitizeJsonEscapes(block))
              THEN Resolved(JsonValue(sanitizeJsonEscapes(block)))
              ELSE Rejected(ErrorObj("SyntaxError"))

\* The error of a failed validation: its message ends with the issues.
InvalidStructure(issues) ==
    [js |-> "Error", message |-> "Invalid Gemini response structure", detail |-> issues]

\* geminiReviewResponseSchema.safeParse(raw) and what analyzeFailure makes of it.
validateResponse(raw) ==
    IF ~geminiReviewResponseSchemaOk(raw)
    THEN Rejected(InvalidStructure(geminiReviewResponseSchemaIssues(raw)))
    ELSE Resolved(geminiReviewResponseData(raw))

\* Variant: a client that hands an empty text to the parser.
analyzeFailureParsingEmpty(response) ==
    IF response.settled = "rejected" THEN Rejected(response.value)
    ELSE LET text == response.value.text IN
      IF ~Truthy(text) THEN Rejected(ErrorObj("Failed to parse Gemini response as JSON"))
      ELSE LET parsed == parseResponseText(text)
           IN IF parsed.settled = "rejected" THEN parsed
              ELSE validateResponse(parsed.value)

\* analyzeFailure(prompt), given what generateContent settled with.
analyzeFailure(response) ==
    IF response.settled = "rejected" THEN Rejected(response.value)
    ELSE LET text == response.value.text IN
      IF ~Truthy(text) THEN Rejected(ErrorObj("Gemini returned an empty response"))
      ELSE LET parsed == parseResponseText(text)
           IN IF parsed.settled = "rejected" THEN parsed
              ELSE validateResponse(parsed.value)

\* The parse and validation attempts one call of analyzeFailure makes, in order.
analyzeFailureAttempts(response) ==
    IF response.settled = "rejected" THEN <<>>
    ELSE LET text == response.value.text IN
      IF ~Truthy(text) THEN <<>>
      ELSE <<"JSON.parse">>
           \o (IF JsonParses(text) THEN <<>>
               ELSE <<"JSON.parse repaired">>
                    \o (IF JsonParses(sanitizeJsonEscapes(text)) THEN <<>>
                        ELSE <<"match">>
                             \o (IF FencedBlock(text).js = "null" THEN <<>>
                                 ELSE <<"JSON.parse block">>)))
           \o (IF parseResponseText(text).settled = "resolved"
               THEN <<"safeParse">> ELSE <<>>)


(***************************************************************************)
(* github: the three failure sources, the diff and the review post.       *)
(* Each function is given what its octokit requests settled with.         *)
(***************************************************************************)
DefaultMaxLogChars == 30000
DefaultMaxDiffChars == 50000

\* String.prototype.slice(-n): the last n characters; -0 is 0, so slice(-0)
\* is the whole text.
SliceLast(text, n) ==
    IF n = 0 THEN text
    ELSE SubSeq(text, (IF Len(text) > n THEN Len(text) - n + 1 ELSE 1), Len(text))

\* String.prototype.slice(0, n) for n >= 0: the first n characters.
SliceFirst(text, n) ==
    SubSeq(text, 1, IF Len(text) > n THEN n ELSE Len(text))

\* The two markers; each names the limit.  A truncated text is a sequence of
\* characters with the marker as one element.
LogsMarker(maxChars) ==
    "... [truncated, showing last " \o ToString(maxChars) \o " chars] ...\n"
DiffMarker(maxChars) ==
    "\n... [diff truncated, showing first " \o ToString(maxChars) \o " chars] ..."

\* Variant: a log truncation that keeps the head of the log.
truncateLogsKeepingHead(logs, maxChars) ==
    IF Len(logs) <= maxChars THEN logs
    ELSE <<LogsMarker(maxChars)>> \o SliceFirst(logs, maxChars)

\* Variant: a diff truncation that cuts a diff of exactly maxChars as well.
truncateDiffBelowLimit(diff, maxChars) ==
    IF Len(diff) < maxChars THEN diff
    ELSE SliceFirst(diff, maxChars) \o <<DiffMarker(maxChars)>>

\* truncateLogs: keeps the tail.
truncateLogs(logs, maxChars) ==
    IF Len(logs) <= maxChars THEN logs
    ELSE <<LogsMarker(maxChars)>> \o SliceLast(logs, maxChars)

\* truncateDiff: keeps the head.
truncateDiff(diff, maxChars) ==
    IF Len(diff) <= maxChars THEN diff
    ELSE SliceFirst(diff, maxChars) \o <<DiffMarker(maxChars)>>

\* Variant: an inner loop that gives up a run's jobs when one log request rejects.
collectJobsAllOrNothing(run, jobs) ==
    IF \E i \in 1..Len(jobs) : jobs[i].logs.settled = "rejected" THEN <<>>
    ELSE [i \in 1..Len(jobs) |->
            [id |-> jobs[i].id,
             name |-> run.name \o " / " \o jobs[i].name,
             conclusion |-> jobs[i].conclusion,
             logs |-> truncateLogs(jobs[i].logs.value.value, DefaultMaxLogChars)]]

\* The inner loop of getFailedJobs: one entry per failed job whose log
\* request resolved; a rejected log request drops that job only.
RECURSIVE collectJobs(_, _)
collectJobs(run, jobs) ==
    IF jobs = <<>> THEN <<>>
    ELSE LET job == Head(jobs) IN
         (IF job.logs.settled = "resolved"
          THEN <<[id |-> job.id,
                  name |-> run.name \o " / " \o job.name,
                  conclusion |-> job.conclusion,
                  logs |-> truncateLogs(job.logs.value.value, DefaultMaxLogChars)]>>
          ELSE <<>>)
         \o collectJobs(run, Tail(jobs))

\* Variant: an outer loop that takes every job of a failed run.
RECURSIVE collectRunsUnfiltered(_)
collectRunsUnfiltered(runs) ==
    IF runs = <<>> THEN Resolved(Arr(<<>>))
    ELSE LET run == Head(runs) IN
         IF run.jobs.settled = "rejected" THEN Rejected(run.jobs.value)
         ELSE LET here == collectJobs(run, run.jobs.value.items)
                  rest == collectRunsUnfiltered(Tail(runs))
              IN IF rest.settled = "rejected" THEN rest
                 ELSE Resolved(Arr(here \o rest.value.items))

\* The outer loop of getFailedJobs: a rejected job listing rejects the whole.
RECURSIVE collectRuns(_)
collectRuns(runs) ==
    IF runs = <<>> THEN Resolved(Arr(<<>>))
    ELSE LET run == Head(runs) IN
         IF run.jobs.settled = "rejected" THEN Rejected(run.jobs.value)
         ELSE LET here == collectJobs(run,
                              SelectSeq(run.jobs.value.items,
                                        LAMBDA job : job.conclusion = "failure"))
                  rest == collectRuns(Tail(runs))
              IN IF rest.settled = "rejected" THEN rest
                 ELSE Resolved(Arr(here \o rest.value.items))

getFailedJobs(runsResponse) ==
    IF runsResponse.settled = "rejected" THEN Rejected(runsResponse.value)
    ELSE IF Len(runsResponse.value.items) = 0 THEN Resolved(Arr(<<>>))
    ELSE collectRuns(runsResponse.value.items)

\* Variant: a filter that keeps the check-runs of every app.
RECURSIVE MapCheckRunsOfEveryApp(_)
MapCheckRunsOfEveryApp(runs) ==
    IF runs = <<>> THEN <<>>
    ELSE LET run == Head(runs) IN
         (IF run.conclusion = "failure"
          THEN <<[name |-> run.name,
                  description |-> IF Truthy(run.summary) THEN run.summary.value
                                  ELSE "Check run from " \o run.app,
                  url |-> IF Truthy(run.details_url) THEN run.details_url.value ELSE "",
                  source |-> "check-run"]>>
          ELSE <<>>)
         \o MapCheckRunsOfEveryApp(Tail(runs))

RECURSIVE MapCheckRuns(_)
MapCheckRuns(runs) ==
    IF runs = <<>> THEN <<>>
    ELSE LET run == Head(runs) IN
         (IF run.conclusion = "failure" /\ run.app # "github-actions"
          THEN <<[name |-> run.name,
                  description |-> IF Truthy(run.summary) THEN run.summary.value
                                  ELSE "Check run from " \o run.app,
                  url |-> IF Truthy(run.details_url) THEN run.details_url.value ELSE "",
                  source |-> "check-run"]>>
          ELSE <<>>)
         \o MapCheckRuns(Tail(runs))

getFailedCheckRuns(response) ==
    IF response.settled = "rejected" THEN Rejected(response.value)
    ELSE Resolved(Arr(MapCheckRuns(response.value.items)))

\* Variant: a filter that keeps the state 'failure' only.
RECURSIVE MapStatusesOfFailure(_)
MapStatusesOfFailure(statuses) ==
    IF statuses = <<>> THEN <<>>
    ELSE LET st == Head(statuses) IN
         (IF st.state = "failure"
          THEN <<[name |-> st.context,
                  description |-> IF Truthy(st.description) THEN st.description.value ELSE "",
                  url |-> IF Truthy(st.target_url) THEN st.target_url.value ELSE "",
                  source |-> "status"]>>
          ELSE <<>>)
         \o MapStatusesOfFailure(Tail(statuses))

RECURSIVE MapStatuses(_)
MapStatuses(statuses) ==
    IF statuses = <<>> THEN <<>>
    ELSE LET st == Head(statuses) IN
         (IF st.state = "failure" \/ st.state = "error"
          THEN <<[name |-> st.context,
                  description |-> IF Truthy(st.description) THEN st.description.value ELSE "",
                  url |-> IF Truthy(st.target_url) THEN st.target_url.value ELSE "",
                  source |-> "status"]>>
          ELSE <<>>)
         \o MapStatuses(Tail(statuses))

getFailedCommitStatuses(response) ==
    IF response.settled = "rejected" THEN Rejected(response.value)
    ELSE Resolved(Arr(MapStatuses(response.value.items)))

\* createPullRequestReview: the request it sends; comment.side is copied.
\* Variant: a request that loses the first comment.
createPullRequestReviewRequestShort(commitId, body, comments, event) ==
    [commit_id |-> commitId,
     body |-> body,
     event |-> event,
     comments |-> Tail(comments)]

createPullRequestReviewRequest(commitId, body, comments, event) ==
    [commit_id |-> commitId,
     body |-> body,
     event |-> event,
     comments |-> [i \in 1..Len(comments) |->
                     [path |-> comments[i].path, line |-> comments[i].line,
                      side |-> comments[i].side, body |-> comments[i].body]]]


(***************************************************************************)
(* Fingerprint engine and review state store (read side).                 *)
(* The digest is modelled as collision-free: the fingerprint is the        *)
(* canonical representation it is computed from.                           *)
(***************************************************************************)
BotLogin == "github-actions[bot]"

\* The identity fields of a failure, and the order of their serialized form.
FingerprintLength == 16
ExternalNames == <<"CentOS CI", "packit">>
Conclusions == <<"failure", "timed_out">>
Descriptions == <<"", "Check run from packit-as-a-service", "failed", "timeout">>
IndexIn(seq, x) == CHOOSE i \in 1..Len(seq) : seq[i] = x
NameRank(name) == IndexIn(ExternalNames, name)
SourceRank(source) == IF source = "check-run" THEN 0 ELSE 1

\* Variant: a job identity that takes the log text in.
JobKeyWithLogs(job) ==
    [kind |-> "job", id |-> job.id, conclusion |-> job.conclusion, logs |-> job.logs]

JobKey(job) == [kind |-> "job", id |-> job.id, conclusion |-> job.conclusion]
ExternalKey(f) ==
    [kind |-> "ext", name |-> f.name, source |-> f.source, description |-> f.description]
KeyRank(key) ==
    IF key.kind = "job"
    THEN Len(Conclusions) * key.id + IndexIn(Conclusions, key.conclusion)
    ELSE Len(Descriptions) * (2 * NameRank(key.name) + SourceRank(key.source))
         + IndexIn(Descriptions, key.description)

\* Insertion of x into a sequence sorted by KeyRank.
RECURSIVE InsertSorted(_, _)
InsertSorted(x, sorted) ==
    IF sorted = <<>> THEN <<x>>
    ELSE IF KeyRank(x) <= KeyRank(Head(sorted)) THEN <<x>> \o sorted
    ELSE <<Head(sorted)>> \o InsertSorted(x, Tail(sorted))

RECURSIVE SortKeys(_)
SortKeys(seq) ==
    IF seq = <<>> THEN <<>>
    ELSE InsertSorted(Head(seq), SortKeys(Tail(seq)))

\* Variant: a fingerprint over the items in the order given.
computeFailureFingerprintUnsorted(sha, jobs, ext) ==
    [js |-> "string",
     length |-> FingerprintLength,
     sha |-> sha,
     jobs |-> [i \in 1..Len(jobs) |-> JobKey(jobs[i])],
     ext |-> [i \in 1..Len(ext) |-> ExternalKey(ext[i])]]

\* Variant: a fingerprint over the commit and the jobs only.
computeFailureFingerprintOfJobs(sha, jobs, ext) ==
    [js |-> "string",
     length |-> FingerprintLength,
     sha |-> sha,
     jobs |-> SortKeys([i \in 1..Len(jobs) |-> JobKey(jobs[i])]),
     ext |-> <<>>]

\* computeFailureFingerprint(headSha, failedJobs, externalFailures): a digest
\* of FingerprintLength characters over the commit and the sorted identities.
computeFailureFingerprint(sha, jobs, ext) ==
    [js |-> "string",
     length |-> FingerprintLength,
     sha |-> sha,
     jobs |-> SortKeys([i \in 1..Len(jobs) |-> JobKey(jobs[i])]),
     ext |-> SortKeys([i \in 1..Len(ext) |-> ExternalKey(ext[i])])]

\* The marker <!-- review-buddy-fingerprint:<fingerprint> --> of a review body,
\* or null when the body carries none.
MarkerOf(body) == body.marker

\* Variant: a lookup that returns the marker of the first review that has one.
findFirstReviewFingerprint(list) ==
    LET marked == {i \in 1..Len(list) :
                     list[i].author = BotLogin /\ MarkerOf(list[i].body).js # "null"}
    IN IF marked = {} THEN NullV
       ELSE MarkerOf(list[CHOOSE i \in marked : \A j \in marked : i <= j].body)

\* findExistingReviewFingerprint: the marker of the last review, in list
\* order, that this system authored and that carries a marker.
RECURSIVE findExistingReviewFingerprint(_)
findExistingReviewFingerprint(list) ==
    IF list = <<>> THEN NullV
    ELSE LET last == list[Len(list)] IN
         IF last.author = BotLogin /\ MarkerOf(last.body).js # "null"
         THEN MarkerOf(last.body)
         ELSE findExistingReviewFingerprint(SubSeq(list, 1, Len(list) - 1))

(***************************************************************************)
(* action: the texts it builds.                                            *)
(***************************************************************************)
confidenceBadge(confidence) ==
    CASE confidence = "high" -> ":green_circle:"
      [] confidence = "medium" -> ":yellow_circle:"
      [] OTHER -> ":orange_circle:"

\* formatReviewBody: heading, badge, confidence and summary.
formatReviewBody(a) ==
    [heading |-> "## Review Buddy - CI Failure Analysis",
     badge |-> confidenceBadge(a.confidence),
     confidence |-> a.confidence,
     summary |-> a.summary,
     marker |-> NullV]

\* Variant: a review body left without the marker.
embedNothing(body, fp) == body

\* The review body with the fingerprint marker embedded.
embedFingerprint(body, fp) == [body EXCEPT !.marker = fp]

\* A status text: its fixed wording (template) and the values inserted in it.
StatusText(template, badge, count, confidence, summary, detail) ==
    [template |-> template, badge |-> badge, count |-> count,
     confidence |-> confidence, summary |-> summary, detail |-> detail]

\* Variant: a status that takes every review with comments as posted.
formatStatusAssumingPosted(a, error, reviewId) ==
    IF Truthy(error)
    THEN StatusText(":warning: AI analysis of CI failures could not be completed - ",
                    "", 0, "", "",
                    IF error.js = "Error" THEN error.message ELSE StringOf(error))
    ELSE IF ~Truthy(a)
    THEN StatusText(":green_circle: No CI failures detected", "", 0, "", "", "")
    ELSE IF Len(a.comments) > 0
    THEN StatusText("CI failure comment(s) posted", confidenceBadge(a.confidence),
                    Len(a.comments), a.confidence, a.summary, "")
    ELSE StatusText("CI failures analyzed - no code changes identified as the cause",
                    confidenceBadge(a.confidence), 0, a.confidence, a.summary, "")

\* Variant: a status that leaves the summary out when there are no comments.
formatStatusWithoutSummary(a, error, reviewId) ==
    IF Truthy(error)
    THEN StatusText(":warning: AI analysis of CI failures could not be completed - ",
                    "", 0, "", "",
                    IF error.js = "Error" THEN error.message ELSE StringOf(error))
    ELSE IF ~Truthy(a)
    THEN StatusText(":green_circle: No CI failures detected", "", 0, "", "", "")
    ELSE IF reviewId.js # "undefined"
    THEN StatusText("CI failure comment(s) posted", confidenceBadge(a.confidence),
                    Len(a.comments), a.confidence, a.summary, "")
    ELSE IF Len(a.comments) > 0
    THEN StatusText("CI failure(s) analyzed but review could not be posted",
                    confidenceBadge(a.confidence), Len(a.comments), a.confidence,
                    a.summary, "")
    ELSE StatusText("CI failures analyzed - no code changes identified as the cause",
                    confidenceBadge(a.confidence), 0, a.confidence, "", "")

\* formatStatus(analysis, error, reviewId)
formatStatus(a, error, reviewId) ==
    IF Truthy(error)
    THEN StatusText(":warning: AI analysis of CI failures could not be completed - ",
                    "", 0, "", "",
                    IF error.js = "Error" THEN error.message ELSE StringOf(error))
    ELSE IF ~Truthy(a)
    THEN StatusText(":green_circle: No CI failures detected", "", 0, "", "", "")
    ELSE LET badge == confidenceBadge(a.confidence) IN
         IF reviewId.js # "undefined"
         THEN StatusText("CI failure comment(s) posted", badge, Len(a.comments),
                         a.confidence, a.summary, "")
         ELSE IF Len(a.comments) > 0
         THEN StatusText("CI failure(s) analyzed but review could not be posted", badge,
                         Len(a.comments), a.confidence, a.summary, "")
         ELSE StatusText("CI failures analyzed - no code changes identified as the cause",
                         badge, 0, a.confidence, a.summary, "")

\* The status of an invocation skipped as a duplicate.
formatSkippedStatus == StatusText("skipped", "", 0, "", "", "")


(***************************************************************************)
(* What the collaborators can answer.                                      *)
(***************************************************************************)
Shas == {"sha1", "sha2"}
ReviewEvents == {"COMMENT", "REQUEST_CHANGES"}

\* Values a rejected call can carry: an Error, a string, a falsy value.
Rejections == {ErrorObj("API quota exceeded"), Str("string error"), Undefined}
ApiError == ErrorObj("HttpError")

ApiJob(id, name, conclusion, logs) ==
    [id |-> id, name |-> name, conclusion |-> conclusion, logs |-> logs]
ApiRun(id, name, jobs) == [id |-> id, name |-> name, jobs |-> jobs]

\* One failed run whose job 2 failed, with the given log text.
RunWithFailedTest(logs) ==
    Resolved(Arr(<<ApiRun(100, "CI", Resolved(Arr(
        <<ApiJob(1, "build", "success", Resolved(Str("ok"))),
          ApiJob(2, "test", "failure", Resolved(Str(logs)))>>)))>>))

RunsResponses ==
    { Rejected(ApiError),
      Resolved(Arr(<<>>)),
      Resolved(Arr(<<ApiRun(100, "CI", Rejected(ApiError))>>)),
      RunWithFailedTest("Error A"),
      RunWithFailedTest("Error B"),
      Resolved(Arr(<<ApiRun(100, "CI", Resolved(Arr(
          <<ApiJob(2, "test", "failure", Rejected(ApiError))>>))),
                     ApiRun(200, "Lint", Resolved(Arr(
          <<ApiJob(3, "eslint", "failure", Resolved(Str("Lint error")))>>)))>>)) }

FailedCheckRuns ==
    Resolved(Arr(
        <<[name |-> "packit", conclusion |-> "failure", app |-> "packit-as-a-service",
           summary |-> NullV, details_url |-> Str("http://packit.example.com")],
          [name |-> "test", conclusion |-> "failure", app |-> "github-actions",
           summary |-> Str("failed"), details_url |-> NullV]>>))

CheckRunsResponses == {Rejected(ApiError), Resolved(Arr(<<>>)), FailedCheckRuns}

FailedStatuses ==
    Resolved(Arr(
        <<[context |-> "CentOS CI", state |-> "error",
           description |-> Str("failed"), target_url |-> NullV],
          [context |-> "packit", state |-> "success",
           description |-> NullV, target_url |-> NullV]>>))

StatusesResponses == {Rejected(ApiError), Resolved(Arr(<<>>)), FailedStatuses}

DiffResponses == {Resolved(Str("diff content")), Rejected(ApiError)}

\* Parsed JSON a response text can stand for.
RawComment(line, side) ==
    [path |-> Str("src/main.ts"), line |-> Num(line), side |-> side, body |-> Str("Fix this")]

RawComments ==
    { RawComment(10, Str("RIGHT")), RawComment(0, Str("RIGHT")),
      RawComment(10, Str("LEFT")), RawComment(10, Undefined) }

RECURSIVE SeqsUpTo(_, _)
SeqsUpTo(S, n) ==
    IF n = 0 THEN {<<>>}
    ELSE LET shorter == SeqsUpTo(S, n - 1) IN
         shorter \cup {Append(q, x) : q \in {r \in shorter : Len(r) = n - 1}, x \in S}

RawAnalysis(summary, comments, confidence) ==
    [js |-> "object", summary |-> summary, comments |-> comments,
     confidence |-> Str(confidence)]

RawAnalyses ==
    { RawAnalysis(sm, cs, cf) :
        sm \in {Str("Bug in the code"), Str(""), Undefined},
        cs \in SeqsUpTo(RawComments, MaxComments),
        cf \in Confidences \cup {"certain"} }

Text(form, raw) == [js |-> "string", value |-> "text", form |-> form, raw |-> raw]
Generated(text) == Resolved([js |-> "object", text |-> text])

GeminiResponses ==
    {Rejected(e) : e \in Rejections}
    \cup {Generated(NullV), Generated(Str(""))}
    \cup {Generated(Text("json", raw)) : raw \in RawAnalyses}
    \cup {Generated(Text(form, RawAnalysis(Str("Bug in the code"), <<>>, "low"))) :
            form \in TextForms}

PostResponses == {Resolved(Num(999)), Rejected(ErrorObj("Validation Failed"))}

\* Reviews other actors leave on the pull request.
OtherReviews ==
    { [author |-> "user1", body |-> [marker |-> NullV]],
      [author |-> BotLogin, body |-> [marker |-> NullV]] }

\* A review an earlier invocation posted for job 2 failing on sha1.
EarlierReview ==
    [author |-> BotLogin,
     body |-> embedFingerprint(
                 formatReviewBody([js |-> "object", summary |-> "Bug in the code",
                                   comments |-> <<>>, confidence |-> "high"]),
                 computeFailureFingerprint("sha1",
                     <<[id |-> 2, name |-> "CI / test", conclusion |-> "failure",
                        logs |-> "Error A"]>>, <<>>))]

\* The inputs of the single-invocation specification: every answer of every
\* collaborator, on a pull request that may carry an earlier review.
Wide ==
    [repeat |-> FALSE,
     priors |-> {<<>>, <<EarlierReview>>},
     payloads |-> {Undefined} \cup {Str(sha) : sha \in Shas},
     events |-> ReviewEvents,
     headShas |-> {Resolved(Str(sha)) : sha \in Shas} \cup {Rejected(ApiError)},
     runs |-> RunsResponses,
     checks |-> CheckRunsResponses,
     statuses |-> StatusesResponses,
     diffs |-> DiffResponses,
     gemini |-> GeminiResponses,
     posts |-> PostResponses,
     others |-> OtherReviews]

\* The inputs of the many-invocation specification: one commit, two
\* failure sources, the model answering with or without comments.
Lean ==
    [repeat |-> TRUE,
     priors |-> {<<>>},
     payloads |-> {Undefined, Str("sha1")},
     events |-> {"COMMENT"},
     headShas |-> {Resolved(Str("sha1")), Rejected(ApiError)},
     runs |-> {Rejected(ApiError), Resolved(Arr(<<>>)), RunWithFailedTest("Error A"),
               RunWithFailedTest("Error B")},
     checks |-> {Rejected(ApiError), Resolved(Arr(<<>>))},
     statuses |-> {Rejected(ApiError), Resolved(Arr(<<>>)), FailedStatuses},
     diffs |-> DiffResponses,
     gemini |-> {Rejected(ErrorObj("API quota exceeded")),
                 Generated(Text("json", RawAnalysis(Str("Bug in the code"), <<>>, "low"))),
                 Generated(Text("json", RawAnalysis(Str("Bug in the code"),
                                                    <<RawComment(10, Str("RIGHT"))>>, "high")))},
     posts |-> PostResponses,
     others |-> {[author |-> "user1", body |-> [marker |-> NullV]]}]

(***************************************************************************)
(* The state machine.  pc names the call action() is about to make:        *)
(*   idle -> resolve -> aggregate -> fingerprint -> diff -> model -> post  *)
(*   -> done | thrown -> idle                                              *)
(* Each action is the call together with the code that runs on its answer. *)
(* The parameter in gives the answers the collaborators can give.          *)
(***************************************************************************)
\* What a try / catch of action() caught, and where.
NoError == [at |-> "none", error |-> NullV]

\* No function has been called on its own.
NoProbe == [fn |-> "none"]

NoCalls ==
    [headSha |-> 0, jobs |-> 0, checks |-> 0, statuses |-> 0, reviews |-> 0,
     diff |-> 0, model |-> 0, post |-> 0,
     ref |-> [jobs |-> "", checks |-> "", statuses |-> ""]]

Called(what) == [calls EXCEPT ![what] = @ + 1]

\* A query of one of the three failure sources, and the commit it asked about.
CalledWith(what, sha) == [calls EXCEPT ![what] = @ + 1, !.ref[what] = sha]

\* No getFailedJobs is running.
NoFetch ==
    [at |-> "none", runs |-> <<>>, run |-> 0, jobs |-> <<>>, results |-> <<>>,
     inflight |-> {}, seen |-> 0, warnings |-> 0,
     rejected |-> [runs |-> 0, jobs |-> 0, logs |-> 0]]

context == <<config, payloadSha>>
promises == <<jobsRes, checksRes, statusesRes>>
failures == <<failedJobs, externalFailures>>
prints == <<fingerprint, existingFp>>
result == <<status, outcome, caught>>
durable == <<reviews, envReviews>>
ghosts == <<prev, posted, invocations>>

InitOver(in) ==
    /\ pc = "idle"
    /\ invocations = 0
    /\ config = [reviewEvent |-> "COMMENT"]
    /\ payloadSha = Undefined
    /\ headSha = ""
    /\ jobsRes = Pending
    /\ checksRes = Pending
    /\ statusesRes = Pending
    /\ failedJobs = <<>>
    /\ externalFailures = <<>>
    /\ fingerprint = NullV
    /\ existingFp = NullV
    /\ analysis = NullV
    /\ status = NullV
    /\ thrown = NullV
    /\ outcome = "none"
    /\ calls = NoCalls
    /\ lastPost = NullV
    /\ reviews \in in.priors
    /\ envReviews = 0
    /\ prev = [outcome |-> "none", fingerprint |-> NullV]
    /\ posted = <<>>
    /\ caught = NoError
    /\ probe = NoProbe
    /\ fetch = NoFetch

\* Variant: a resolver that asks the pull-request API whatever the payload holds.
BeginAlwaysFetching(in) ==
    /\ pc = "idle"
    /\ invocations < (IF in.repeat THEN MaxInvocations ELSE 1)
    /\ invocations' = invocations + 1
    /\ \E ev \in in.events : config' = [reviewEvent |-> ev]
    /\ \E p \in in.payloads : payloadSha' = p
    /\ headSha' = ""
    /\ pc' = "resolve"
    /\ UNCHANGED <<probe, fetch, promises, failures, prints, analysis, result, thrown, calls,
                   lastPost, durable, prev, posted>>

\* action() is invoked; resolveHeadSha takes the payload's head_sha when it
\* is there and otherwise goes to the pull-request API.
Begin(in) ==
    /\ pc = "idle"
    /\ invocations < (IF in.repeat THEN MaxInvocations ELSE 1)
    /\ invocations' = invocations + 1
    /\ \E ev \in in.events : config' = [reviewEvent |-> ev]
    /\ \E p \in in.payloads :
          /\ payloadSha' = p
          /\ IF Truthy(p)
             THEN headSha' = p.value /\ pc' = "aggregate"
             ELSE headSha' = "" /\ pc' = "resolve"
    /\ UNCHANGED <<probe, fetch, promises, failures, prints, analysis, result, thrown, calls,
                   lastPost, durable, prev, posted>>

\* Variant: a resolver that goes on without a head commit when the API rejects.
GetPullRequestHeadShaSwallowing(in) ==
    /\ pc = "resolve"
    /\ calls' = Called("headSha")
    /\ \E r \in in.headShas :
          headSha' = IF r.settled = "resolved" THEN r.value.value ELSE headSha
    /\ pc' = "aggregate"
    /\ UNCHANGED <<probe, fetch, context, promises, failures, prints, analysis, result, thrown,
                   lastPost, durable, ghosts>>

\* resolveHeadSha, fallback: getPullRequestHeadSha settles.
GetPullRequestHeadSha(in) ==
    /\ pc = "resolve"
    /\ calls' = Called("headSha")
    /\ \E r \in in.headShas :
          IF r.settled = "resolved"
          THEN headSha' = r.value.value /\ pc' = "aggregate" /\ UNCHANGED thrown
          ELSE thrown' = r.value /\ pc' = "thrown" /\ UNCHANGED headSha
    /\ UNCHANGED <<probe, fetch, context, promises, failures, prints, analysis, result, lastPost,
                   durable, ghosts>>

\* Promise.all: the three sources settle in any order; the first rejection
\* rejects the whole and action() with it.
\* Variant: a rejected source that does not reject the whole.
SettleIgnoringRejection(r) == UNCHANGED <<thrown, pc>>

Settle(r) ==
    IF r.settled = "rejected"
    THEN thrown' = r.value /\ pc' = "thrown"
    ELSE UNCHANGED <<thrown, pc>>

FetchFailedJobs(in) ==
    /\ pc = "aggregate"
    /\ jobsRes.settled = "pending"
    /\ calls' = CalledWith("jobs", headSha)
    /\ \E resp \in in.runs :
          /\ jobsRes' = getFailedJobs(resp)
          /\ Settle(getFailedJobs(resp))
    /\ UNCHANGED <<probe, fetch, context, headSha, checksRes, statusesRes, failures, prints, analysis,
                   result, lastPost, durable, ghosts>>

FetchFailedCheckRuns(in) ==
    /\ pc = "aggregate"
    /\ checksRes.settled = "pending"
    /\ calls' = CalledWith("checks", headSha)
    /\ \E resp \in in.checks :
          /\ checksRes' = getFailedCheckRuns(resp)
          /\ Settle(getFailedCheckRuns(resp))
    /\ UNCHANGED <<probe, fetch, context, headSha, jobsRes, statusesRes, failures, prints, analysis,
                   result, lastPost, durable, ghosts>>

\* Variant: a status query that asks about the pull request's head of the
\* moment, whatever commit was resolved at the start.
FetchFailedCommitStatusesAtCurrentHead(in) ==
    /\ pc = "aggregate"
    /\ statusesRes.settled = "pending"
    /\ \E sha \in Shas : calls' = CalledWith("statuses", sha)
    /\ \E resp \in in.statuses :
          /\ statusesRes' = getFailedCommitStatuses(resp)
          /\ Settle(getFailedCommitStatuses(resp))
    /\ UNCHANGED <<probe, fetch, context, headSha, jobsRes, checksRes, failures, prints, analysis,
                   result, lastPost, durable, ghosts>>

FetchFailedCommitStatuses(in) ==
    /\ pc = "aggregate"
    /\ statusesRes.settled = "pending"
    /\ calls' = CalledWith("statuses", headSha)
    /\ \E resp \in in.statuses :
          /\ statusesRes' = getFailedCommitStatuses(resp)
          /\ Settle(getFailedCommitStatuses(resp))
    /\ UNCHANGED <<probe, fetch, context, headSha, jobsRes, checksRes, failures, prints, analysis,
                   result, lastPost, durable, ghosts>>

\* Variant: an aggregation that goes on when nothing failed.
AggregatedWithoutEmptyCheck ==
    /\ pc = "aggregate"
    /\ jobsRes.settled = "resolved"
    /\ checksRes.settled = "resolved"
    /\ statusesRes.settled = "resolved"
    /\ failedJobs' = jobsRes.value.items
    /\ externalFailures' = checksRes.value.items \o statusesRes.value.items
    /\ pc' = "fingerprint"
    /\ UNCHANGED <<probe, fetch, context, headSha, promises, prints, analysis, result, thrown, calls,
                   lastPost, durable, ghosts>>

\* Variant: a merge that puts the commit statuses before the check-runs.
AggregatedStatusesFirst ==
    /\ pc = "aggregate"
    /\ jobsRes.settled = "resolved"
    /\ checksRes.settled = "resolved"
    /\ statusesRes.settled = "resolved"
    /\ failedJobs' = jobsRes.value.items
    /\ externalFailures' = statusesRes.value.items \o checksRes.value.items
    /\ LET totalFailures == Len(failedJobs') + Len(externalFailures') IN
       IF totalFailures = 0
       THEN /\ status' = formatStatus(NullV, Undefined, Undefined)
            /\ outcome' = "no-failures"
            /\ UNCHANGED caught
            /\ pc' = "done"
       ELSE /\ pc' = "fingerprint"
            /\ UNCHANGED result
    /\ UNCHANGED <<probe, fetch, context, headSha, promises, prints, analysis, thrown, calls, lastPost,
                   durable, ghosts>>

\* All three resolved: merge, and stop when nothing failed.
\* Variant: an aggregation that looks at the failed jobs only to decide
\* whether anything failed.
AggregatedCountingJobsOnly ==
    /\ pc = "aggregate"
    /\ jobsRes.settled = "resolved"
    /\ checksRes.settled = "resolved"
    /\ statusesRes.settled = "resolved"
    /\ failedJobs' = jobsRes.value.items
    /\ externalFailures' = checksRes.value.items \o statusesRes.value.items
    /\ LET totalFailures == Len(failedJobs') IN
       IF totalFailures = 0
       THEN /\ status' = formatStatus(NullV, Undefined, Undefined)
            /\ outcome' = "no-failures"
            /\ UNCHANGED caught
            /\ pc' = "done"
       ELSE /\ pc' = "fingerprint"
            /\ UNCHANGED result
    /\ UNCHANGED <<probe, fetch, context, headSha, promises, prints, analysis, thrown, calls, lastPost,
                   durable, ghosts>>

Aggregated ==
    /\ pc = "aggregate"
    /\ jobsRes.settled = "resolved"
    /\ checksRes.settled = "resolved"
    /\ statusesRes.settled = "resolved"
    /\ failedJobs' = jobsRes.value.items
    /\ externalFailures' = checksRes.value.items \o statusesRes.value.items
    /\ LET totalFailures == Len(failedJobs') + Len(externalFailures') IN
       IF totalFailures = 0
       THEN /\ status' = formatStatus(NullV, Undefined, Undefined)
            /\ outcome' = "no-failures"
            /\ UNCHANGED caught
            /\ pc' = "done"
       ELSE /\ pc' = "fingerprint"
            /\ UNCHANGED result
    /\ UNCHANGED <<probe, fetch, context, headSha, promises, prints, analysis, thrown, calls, lastPost,
                   durable, ghosts>>

\* Variant: a lookup whose answer is never compared.
CheckFingerprintWithoutSkip ==
    /\ pc = "fingerprint"
    /\ calls' = Called("reviews")
    /\ fingerprint' = computeFailureFingerprint(headSha, failedJobs, externalFailures)
    /\ existingFp' = findExistingReviewFingerprint(reviews)
    /\ pc' = "diff"
    /\ UNCHANGED <<probe, fetch, context, headSha, promises, failures, analysis, result, thrown, lastPost,
                   durable, ghosts>>

\* The fingerprint is computed and compared with the one the prior reviews carry.
CheckFingerprint ==
    /\ pc = "fingerprint"
    /\ calls' = Called("reviews")
    /\ fingerprint' = computeFailureFingerprint(headSha, failedJobs, externalFailures)
    /\ existingFp' = findExistingReviewFingerprint(reviews)
    /\ IF existingFp' = fingerprint'
       THEN /\ status' = formatSkippedStatus
            /\ outcome' = "skipped-duplicate"
            /\ UNCHANGED caught
            /\ pc' = "done"
       ELSE /\ pc' = "diff"
            /\ UNCHANGED result
    /\ UNCHANGED <<probe, fetch, context, headSha, promises, failures, analysis, thrown, lastPost,
                   durable, ghosts>>

\* Variant: a model call made although the diff request rejected.
GetPullRequestDiffIgnoringRejection(in) ==
    /\ pc = "diff"
    /\ calls' = Called("diff")
    /\ \E r \in in.diffs :
          IF r.settled = "resolved"
          THEN pc' = "model" /\ UNCHANGED thrown
          ELSE thrown' = r.value /\ pc' = "model"
    /\ UNCHANGED <<probe, fetch, context, headSha, promises, failures, prints, analysis, result,
                   lastPost, durable, ghosts>>

\* getPullRequestDiff settles; a rejection is not caught.
GetPullRequestDiff(in) ==
    /\ pc = "diff"
    /\ calls' = Called("diff")
    /\ \E r \in in.diffs :
          IF r.settled = "resolved"
          THEN pc' = "model" /\ UNCHANGED thrown
          ELSE thrown' = r.value /\ pc' = "thrown"
    /\ UNCHANGED <<probe, fetch, context, headSha, promises, failures, prints, analysis, result,
                   lastPost, durable, ghosts>>

\* Variant: a model call that is made once more after it rejected.
AnalyzeFailureRetrying(in) ==
    /\ pc = "model"
    /\ calls' = Called("model")
    /\ \E resp \in in.gemini :
          LET r == analyzeFailure(resp) IN
          IF r.settled = "rejected" /\ calls.model = 0
          THEN pc' = "model" /\ UNCHANGED <<analysis, result>>
          ELSE IF r.settled = "rejected"
          THEN /\ status' = formatStatus(NullV, r.value, Undefined)
               /\ outcome' = "analysis-failed"
               /\ caught' = [at |-> "model", error |-> r.value]
               /\ pc' = "done"
               /\ UNCHANGED analysis
          ELSE /\ analysis' = r.value
               /\ IF Len(r.value.comments) > 0
                  THEN pc' = "post" /\ UNCHANGED result
                  ELSE /\ status' = formatStatus(r.value, Undefined, Undefined)
                       /\ outcome' = "analyzed-no-comments"
                       /\ UNCHANGED caught
                       /\ pc' = "done"
    /\ UNCHANGED <<probe, fetch, context, headSha, promises, failures, prints, thrown, lastPost,
                   durable, ghosts>>

\* gemini.analyzeFailure(prompt) settles: try / catch of action().
AnalyzeFailure(in) ==
    /\ pc = "model"
    /\ calls' = Called("model")
    /\ \E resp \in in.gemini :
          LET r == analyzeFailure(resp) IN
          IF r.settled = "rejected"
          THEN /\ status' = formatStatus(NullV, r.value, Undefined)
               /\ outcome' = "analysis-failed"
               /\ caught' = [at |-> "model", error |-> r.value]
               /\ pc' = "done"
               /\ UNCHANGED analysis
          ELSE /\ analysis' = r.value
               /\ IF Len(r.value.comments) > 0
                  THEN pc' = "post" /\ UNCHANGED result
                  ELSE /\ status' = formatStatus(r.value, Undefined, Undefined)
                       /\ outcome' = "analyzed-no-comments"
                       /\ UNCHANGED caught
                       /\ pc' = "done"
    /\ UNCHANGED <<probe, fetch, context, headSha, promises, failures, prints, thrown, lastPost,
                   durable, ghosts>>

\* Variant: a review that exists although the call that posts it rejected.
CreatePullRequestReviewKeptOnFailure(in) ==
    /\ pc = "post"
    /\ calls' = Called("post")
    /\ LET reviewBody == embedFingerprint(formatReviewBody(analysis), fingerprint)
           request == createPullRequestReviewRequest(headSha, reviewBody,
                                                     analysis.comments, config.reviewEvent)
       IN /\ lastPost' = request
          /\ reviews' = Append(reviews, [author |-> BotLogin, body |-> request.body])
          /\ \E r \in in.posts :
                IF r.settled = "resolved"
                THEN /\ status' = formatStatus(analysis, Undefined, r.value)
                     /\ outcome' = "posted-with-comments"
                     /\ UNCHANGED caught
                ELSE /\ status' = formatStatus(analysis, Undefined, Undefined)
                     /\ outcome' = "post-failed"
                     /\ caught' = [at |-> "post", error |-> r.value]
    /\ pc' = "done"
    /\ UNCHANGED <<probe, fetch, context, headSha, promises, failures, prints, analysis, thrown,
                   envReviews, ghosts>>

\* createPullRequestReview settles: try / catch of action().
CreatePullRequestReview(in) ==
    /\ pc = "post"
    /\ calls' = Called("post")
    /\ LET reviewBody == embedFingerprint(formatReviewBody(analysis), fingerprint)
           request == createPullRequestReviewRequest(headSha, reviewBody,
                                                     analysis.comments, config.reviewEvent)
       IN /\ lastPost' = request
          /\ \E r \in in.posts :
                IF r.settled = "resolved"
                THEN /\ reviews' = Append(reviews, [author |-> BotLogin, body |-> request.body])
                     /\ status' = formatStatus(analysis, Undefined, r.value)
                     /\ outcome' = "posted-with-comments"
                     /\ UNCHANGED caught
                ELSE /\ status' = formatStatus(analysis, Undefined, Undefined)
                     /\ outcome' = "post-failed"
                     /\ caught' = [at |-> "post", error |-> r.value]
                     /\ UNCHANGED reviews
    /\ pc' = "done"
    /\ UNCHANGED <<probe, fetch, context, headSha, promises, failures, prints, analysis, thrown,
                   envReviews, ghosts>>

\* action() has returned its status or rejected; main reports it.
Return ==
    /\ pc \in {"done", "thrown"}
    /\ pc' = "idle"
    /\ prev' = [outcome |-> IF pc = "thrown" THEN "thrown" ELSE outcome,
                fingerprint |-> fingerprint]
    /\ posted' = IF outcome = "posted-with-comments"
                 THEN Append(posted, fingerprint) ELSE posted
    /\ caught' = NoError
    /\ config' = [reviewEvent |-> "COMMENT"]
    /\ payloadSha' = Undefined
    /\ headSha' = ""
    /\ jobsRes' = Pending
    /\ checksRes' = Pending
    /\ statusesRes' = Pending
    /\ failedJobs' = <<>>
    /\ externalFailures' = <<>>
    /\ fingerprint' = NullV
    /\ existingFp' = NullV
    /\ analysis' = NullV
    /\ status' = NullV
    /\ thrown' = NullV
    /\ outcome' = "none"
    /\ calls' = NoCalls
    /\ lastPost' = NullV
    /\ fetch' = NoFetch
    /\ UNCHANGED <<probe, durable, invocations>>

\* Another actor leaves a review on the pull request.
OtherReview(in) ==
    /\ envReviews < MaxEnvReviews
    /\ envReviews' = envReviews + 1
    /\ \E rv \in in.others : reviews' = Append(reviews, rv)
    /\ UNCHANGED <<probe, fetch, pc, context, headSha, promises, failures, prints, analysis, result,
                   thrown, calls, lastPost, ghosts>>

NextOver(in) ==
    \/ Begin(in)
    \/ GetPullRequestHeadSha(in)
    \/ FetchFailedJobs(in)
    \/ FetchFailedCheckRuns(in)
    \/ FetchFailedCommitStatuses(in)
    \/ Aggregated
    \/ CheckFingerprint
    \/ GetPullRequestDiff(in)
    \/ AnalyzeFailure(in)
    \/ CreatePullRequestReview(in)
    \/ Return
    \/ OtherReview(in)

(***************************************************************************)
(* Functions called on their own: one call, on arguments drawn from the    *)
(* sets below, while no invocation runs.                                   *)
(***************************************************************************)
pipeline == <<pc, invocations, config, payloadSha, headSha, jobsRes, checksRes, statusesRes,
              failedJobs, externalFailures, fingerprint, existingFp, analysis, status,
              thrown, outcome, calls, lastPost, reviews, envReviews, prev, posted, caught,
              fetch>>

Probe(fn, arg, out) == [fn |-> fn, arg |-> arg, out |-> out]

\* Answers of the workflow-run, job and log requests: up to MaxRuns failed
\* runs, each with a rejected job listing or up to MaxJobs jobs; a job failed
\* with its log, failed with a rejected log request, or passed.
JobKinds == {"failed", "failed-no-log", "passed"}
RunNames == <<"CI", "Lint", "Docs", "Release">>
JobNames == <<"build", "test", "lint", "e2e">>

\* What a job that did not fail concluded with, by its place in the run.
OtherConclusions == <<"timed_out", "success", "cancelled", "skipped">>

ApiJobOfKind(kind, id, name) ==
    ApiJob(id, name,
           IF kind = "passed" THEN OtherConclusions[IndexIn(JobNames, name)] ELSE "failure",
           IF kind = "failed-no-log" THEN Rejected(ApiError) ELSE Resolved(Str("log " \o name)))

RunShapes ==
    {[listed |-> FALSE, kinds |-> <<>>]}
    \cup {[listed |-> TRUE, kinds |-> k] : k \in SeqsUpTo(JobKinds, MaxJobs)}

ApiRunOfShape(shape, r) ==
    ApiRun(100 * r, RunNames[r],
           IF shape.listed
           THEN Resolved(Arr([i \in 1..Len(shape.kinds) |->
                                ApiJobOfKind(shape.kinds[i], 10 * r + i, JobNames[i])]))
           ELSE Rejected(ApiError))

JobsListings ==
    {Rejected(ApiError)}
    \cup {Resolved(Arr([r \in 1..Len(shapes) |-> ApiRunOfShape(shapes[r], r)])) :
            shapes \in SeqsUpTo(RunShapes, MaxRuns)}

CallGetFailedJobs ==
    /\ probe = NoProbe
    /\ \E resp \in JobsListings :
          probe' = Probe("getFailedJobs", resp, getFailedJobs(resp))
    /\ UNCHANGED pipeline

\* Arguments of the fingerprint function.
FailedJobOf(id, conclusion, logs) ==
    [id |-> id, name |-> "CI / test", conclusion |-> conclusion, logs |-> logs]

FailedJobsOf ==
    { FailedJobOf(1, "failure", "Error A"), FailedJobOf(1, "failure", "Error B"),
      FailedJobOf(2, "failure", "Error A"), FailedJobOf(1, "timed_out", "Error A"),
      FailedJobOf(2, "timed_out", "Error B") }

ExternalFailureOf(name, description, source) ==
    [name |-> name, description |-> description, url |-> "", source |-> source]

ExternalFailuresOf ==
    { ExternalFailureOf("CentOS CI", "failed", "status"),
      ExternalFailureOf("packit", "failed", "check-run"),
      ExternalFailureOf("packit", "failed", "status"),
      ExternalFailureOf("packit", "timeout", "status") }

CallComputeFailureFingerprint ==
    /\ probe = NoProbe
    /\ \E sha \in Shas, jobs \in SeqsUpTo(FailedJobsOf, MaxFailedJobs),
          ext \in SeqsUpTo(ExternalFailuresOf, MaxExternalFailures) :
          probe' = Probe("computeFailureFingerprint",
                         [sha |-> sha, jobs |-> jobs, ext |-> ext],
                         computeFailureFingerprint(sha, jobs, ext))
    /\ UNCHANGED pipeline

\* Review lists the lookup can be given: reviews of this system with one of
\* two markers or with none, and reviews of another author.
ReviewWithMarker(fp) ==
    [author |-> BotLogin, body |-> [EarlierReview.body EXCEPT !.marker = fp]]

ListedReviews ==
    OtherReviews
    \cup {EarlierReview,
          ReviewWithMarker(computeFailureFingerprint("sha2", <<>>,
              <<[name |-> "packit", description |-> "failed", url |-> "",
                 source |-> "status"]>>))}

CallFindExistingReviewFingerprint ==
    /\ probe = NoProbe
    /\ \E list \in SeqsUpTo(ListedReviews, MaxReviews) :
          probe' = Probe("findExistingReviewFingerprint", list,
                         findExistingReviewFingerprint(list))
    /\ UNCHANGED pipeline

\* Answers of the model given character by character: the serialization of
\* an analysis, bare or inside a code fence with or without a language tag.
SummaryChars == {"d", "n", Backslash, Quote, Fence}

Summaries == SeqsUpTo(SummaryChars, MaxSummaryLen)

CommentOf(line) == [path |-> "src/main.ts", line |-> line, side |-> "RIGHT", body |-> "Fix this"]

Analyses ==
    {[js |-> "object", summary |-> sm, comments |-> cs, confidence |-> cf] :
        sm \in Summaries, cs \in {<<>>, <<CommentOf(10)>>}, cf \in {"low"}}

\* JSON.stringify of a string: a backslash before every backslash and quote.
RECURSIVE EscapeString(_)
EscapeString(chars) ==
    IF chars = <<>> THEN <<>>
    ELSE (IF Head(chars) \in {Backslash, Quote} THEN <<Backslash, Head(chars)>>
          ELSE <<Head(chars)>>)
         \o EscapeString(Tail(chars))

\* JSON.stringify of an analysis.
JsonStringify(a) ==
    [js |-> "string", value |-> "text", form |-> "chars",
     chars |-> <<OpenToken>> \o EscapeString(a.summary) \o <<CloseToken>>,
     rest |-> [comments |-> [i \in 1..Len(a.comments) |->
                               [path |-> Str(a.comments[i].path),
                                line |-> Num(a.comments[i].line),
                                side |-> Str(a.comments[i].side),
                                body |-> Str(a.comments[i].body)]],
               confidence |-> Str(a.confidence)]]

\* '```json\n' + text + '\n```' and '```\n' + text + '\n```'.
Fenced(text, tagged) ==
    [text EXCEPT !.chars = <<Fence>> \o (IF tagged THEN <<Tag>> ELSE <<>>)
                           \o <<Newline>> \o @ \o <<Newline, Fence>>]

SerializedResponses ==
    {Generated(JsonStringify(a)) : a \in Analyses}
    \cup {Generated(Fenced(JsonStringify(a), tagged)) : a \in Analyses, tagged \in BOOLEAN}

\* Answers that parse to a value of the wrong shape: a summary or a line of
\* the wrong type, a line below one.
MalformedAnalyses ==
    { RawAnalysis(Num(5), <<>>, "low"),
      RawAnalysis(Str("Bug found"),
                  <<RawComment(10, Str("RIGHT")), RawComment(-1, Str("RIGHT"))>>, "high"),
      RawAnalysis(Str("Bug found"),
                  <<[RawComment(10, Str("RIGHT")) EXCEPT !.line = Str("10")]>>, "high"),
      RawAnalysis(Undefined, <<RawComment(0, Undefined)>>, "certain") }

ProbedResponses ==
    GeminiResponses
    \cup {Generated(Undefined)}
    \cup {Generated(Text("json", raw)) : raw \in MalformedAnalyses}
    \cup SerializedResponses

CallAnalyzeFailure ==
    /\ probe = NoProbe
    /\ \E resp \in ProbedResponses :
          probe' = [fn |-> "analyzeFailure", arg |-> resp, out |-> analyzeFailure(resp),
                    attempts |-> analyzeFailureAttempts(resp)]
    /\ UNCHANGED pipeline

\* Answers of the check-run listing: up to MaxCheckRuns check-runs, each of
\* one of the kinds below, named by its place.
CheckRunKinds ==
    { [conclusion |-> "failure", app |-> "packit-as-a-service",
       summary |-> Str("Build failed"), details_url |-> Str("http://packit.example.com")],
      [conclusion |-> "failure", app |-> "packit-as-a-service",
       summary |-> NullV, details_url |-> NullV],
      [conclusion |-> "failure", app |-> "testing-farm",
       summary |-> Str(""), details_url |-> Str("http://tf.example.com")],
      [conclusion |-> "failure", app |-> "github-actions",
       summary |-> Str("Tests failed"), details_url |-> NullV],
      [conclusion |-> "success", app |-> "packit-as-a-service",
       summary |-> Str("Passed"), details_url |-> Str("http://packit.example.com")],
      [conclusion |-> "timed_out", app |-> "testing-farm",
       summary |-> NullV, details_url |-> Str("http://tf.example.com")] }

CheckNames == <<"check-1", "check-2", "check-3", "check-4">>

ApiCheckRun(kind, i) ==
    [name |-> CheckNames[i], conclusion |-> kind.conclusion, app |-> kind.app,
     summary |-> kind.summary, details_url |-> kind.details_url]

CheckRunListings ==
    {Rejected(ApiError)}
    \cup {Resolved(Arr([i \in 1..Len(kinds) |-> ApiCheckRun(kinds[i], i)])) :
            kinds \in SeqsUpTo(CheckRunKinds, MaxCheckRuns)}

CallGetFailedCheckRuns ==
    /\ probe = NoProbe
    /\ \E resp \in CheckRunListings :
          probe' = Probe("getFailedCheckRuns", resp, getFailedCheckRuns(resp))
    /\ UNCHANGED pipeline

\* Answers of the combined status request: up to MaxStatuses statuses.
StatusKinds ==
    { [state |-> "failure", description |-> Str("Build failed"),
       target_url |-> Str("http://ci.example.com")],
      [state |-> "error", description |-> NullV, target_url |-> NullV],
      [state |-> "error", description |-> Str("Infrastructure error"), target_url |-> NullV],
      [state |-> "success", description |-> Str("Passed"),
       target_url |-> Str("http://ci.example.com")],
      [state |-> "pending", description |-> NullV, target_url |-> Str("http://ci.example.com")] }

StatusContexts == <<"ci/one", "ci/two", "ci/three", "ci/four">>

ApiStatus(kind, i) ==
    [context |-> StatusContexts[i], state |-> kind.state,
     description |-> kind.description, target_url |-> kind.target_url]

StatusListings ==
    {Rejected(ApiError)}
    \cup {Resolved(Arr([i \in 1..Len(kinds) |-> ApiStatus(kinds[i], i)])) :
            kinds \in SeqsUpTo(StatusKinds, MaxStatuses)}

CallGetFailedCommitStatuses ==
    /\ probe = NoProbe
    /\ \E resp \in StatusListings :
          probe' = Probe("getFailedCommitStatuses", resp, getFailedCommitStatuses(resp))
    /\ UNCHANGED pipeline

\* Texts of a few characters and small limits: a log or a diff is a sequence
\* of characters here, so that which characters survive can be told.
TextChars == {"a", "b", "c"}
Texts == SeqsUpTo(TextChars, MaxTextLen)

\* truncateLogs is called with a positive limit only (the default, 30000).
CallTruncateLogs ==
    /\ probe = NoProbe
    /\ \E logs \in Texts, maxChars \in 1..MaxLimit :
          probe' = Probe("truncateLogs", [logs |-> logs, maxChars |-> maxChars],
                         truncateLogs(logs, maxChars))
    /\ UNCHANGED pipeline

CallTruncateDiff ==
    /\ probe = NoProbe
    /\ \E diff \in Texts, maxChars \in 0..MaxLimit :
          probe' = Probe("truncateDiff", [diff |-> diff, maxChars |-> maxChars],
                         truncateDiff(diff, maxChars))
    /\ UNCHANGED pipeline

\* Raw texts of a few characters, backslashes included, given to the repair.
EscapedChars == {"d", "n", Backslash, Quote}
EscapedTexts == SeqsUpTo(EscapedChars, MaxEscapedLen)
RawText(chars) == [js |-> "string", value |-> "text", form |-> "chars", chars |-> chars]

CallSanitizeJsonEscapes ==
    /\ probe = NoProbe
    /\ \E chars \in EscapedTexts :
          probe' = Probe("sanitizeJsonEscapes", RawText(chars),
                         sanitizeJsonEscapes(RawText(chars)))
    /\ UNCHANGED pipeline

NextPure ==
    \/ CallSanitizeJsonEscapes
    \/ CallTruncateLogs
    \/ CallTruncateDiff
    \/ CallGetFailedJobs
    \/ CallGetFailedCheckRuns
    \/ CallGetFailedCommitStatuses
    \/ CallComputeFailureFingerprint
    \/ CallFindExistingReviewFingerprint
    \/ CallAnalyzeFailure

InitPure == InitOver(Lean)
SpecPure == InitPure /\ [][NextPure]_vars

\* One invocation, every input.
(***************************************************************************)
(* getFailedJobs step by step: between two awaits the function runs on;    *)
(* each action is one awaited request settling and the function running    *)
(* up to its next await or its return.  The settled call is slot 0 of the  *)
(* Promise.all of action().                                                *)
(***************************************************************************)
MaxStepRuns == 2
MaxStepJobs == 2

\* The three requests of getFailedJobs.
RunsRoute == "GET /repos/{owner}/{repo}/actions/runs"
JobsRoute == "GET /repos/{owner}/{repo}/actions/runs/{run_id}/jobs"
LogsRoute == "GET /repos/{owner}/{repo}/actions/jobs/{job_id}/logs"
ListRuns == [route |-> RunsRoute, id |-> 0]
ListJobs(run) == [route |-> JobsRoute, id |-> run.id]
GetJobLogs(job) == [route |-> LogsRoute, id |-> job.id]

\* What the requests can settle with.
RunsListings ==
    {Rejected(ApiError)}
    \cup {Resolved(Arr([r \in 1..n |-> [id |-> 100 * r, name |-> RunNames[r]]])) :
             n \in 0..MaxStepRuns}
JobConclusions == {"failure", "success"}
JobListingsOf(run) ==
    {Rejected(ApiError)}
    \cup {Resolved(Arr([i \in 1..Len(c) |->
                          [id |-> run.id \div 10 + i, name |-> JobNames[i],
                           conclusion |-> c[i]]])) :
             c \in SeqsUpTo(JobConclusions, MaxStepJobs)}
LogsOf(job) == {Rejected(ApiError), Resolved(Str("log " \o job.name))}

\* return, or a rejection of the awaited request that nothing catches.
Finish(f, out) ==
    /\ fetch' = [f EXCEPT !.at = "settled", !.inflight = {}, !.jobs = <<>>]
    /\ jobsRes' = out
    /\ Settle(out)

Await(f, at, request) ==
    /\ fetch' = [f EXCEPT !.at = at, !.inflight = @ \cup {request}]
    /\ UNCHANGED <<jobsRes, thrown, pc>>

\* for (const run of failedRuns): the next run's jobs are asked for, or the
\* loop is over and the results are returned.
NextRun(f) ==
    IF f.run < Len(f.runs)
    THEN Await([f EXCEPT !.run = @ + 1, !.jobs = <<>>], "jobs", ListJobs(f.runs[f.run + 1]))
    ELSE Finish(f, Resolved(Arr(f.results)))

\* for (const job of failedJobs): the next job's log is asked for, or the
\* inner loop is over.
NextJob(f) ==
    IF f.jobs # <<>> THEN Await(f, "logs", GetJobLogs(Head(f.jobs)))
    ELSE NextRun(f)

stepped == <<probe, context, headSha, checksRes, statusesRes, failures, prints, analysis,
             result, lastPost, durable, ghosts>>

\* getFailedJobs is called and awaits the listing of the failed runs.
StartGetFailedJobs ==
    /\ pc = "aggregate"
    /\ jobsRes.settled = "pending"
    /\ fetch.at = "none"
    /\ calls' = CalledWith("jobs", headSha)
    /\ Await(NoFetch, "runs", ListRuns)
    /\ UNCHANGED stepped

\* The listing of the failed runs settles.
RunsListed ==
    /\ pc = "aggregate"
    /\ fetch.at = "runs"
    /\ \E runsResponse \in RunsListings :
          LET f == [fetch EXCEPT !.inflight = @ \ {ListRuns}] IN
          IF runsResponse.settled = "rejected"
          THEN Finish([f EXCEPT !.rejected.runs = @ + 1], Rejected(runsResponse.value))
          ELSE IF Len(runsResponse.value.items) = 0
          THEN Finish(f, Resolved(Arr(<<>>)))
          ELSE NextRun([f EXCEPT !.runs = runsResponse.value.items])
    /\ UNCHANGED <<calls, stepped>>

\* Variant: a job listing whose rejection is caught and skips the run.
JobsListedSkippingRejected ==
    /\ pc = "aggregate"
    /\ fetch.at = "jobs"
    /\ LET run == fetch.runs[fetch.run]
           f == [fetch EXCEPT !.inflight = @ \ {ListJobs(run)}]
       IN \E jobsResponse \in JobListingsOf(run) :
             IF jobsResponse.settled = "rejected"
             THEN NextRun([f EXCEPT !.rejected.jobs = @ + 1])
             ELSE LET failedJobsOfRun ==
                          SelectSeq(jobsResponse.value.items,
                                    LAMBDA job : job.conclusion = "failure")
                  IN NextJob([f EXCEPT !.jobs = failedJobsOfRun,
                                       !.seen = @ + Len(failedJobsOfRun)])
    /\ UNCHANGED <<calls, stepped>>

\* Variant: a job listing after which the logs of all the run's failed jobs
\* are asked for at once.
JobsListedFetchingLogsTogether ==
    /\ pc = "aggregate"
    /\ fetch.at = "jobs"
    /\ LET run == fetch.runs[fetch.run]
           f == [fetch EXCEPT !.inflight = @ \ {ListJobs(run)}]
       IN \E jobsResponse \in JobListingsOf(run) :
             IF jobsResponse.settled = "rejected"
             THEN Finish([f EXCEPT !.rejected.jobs = @ + 1], Rejected(jobsResponse.value))
             ELSE LET failedJobsOfRun ==
                          SelectSeq(jobsResponse.value.items,
                                    LAMBDA job : job.conclusion = "failure")
                  IN NextJob([f EXCEPT !.jobs = failedJobsOfRun,
                                       !.seen = @ + Len(failedJobsOfRun),
                                       !.inflight = {GetJobLogs(failedJobsOfRun[i]) :
                                                       i \in 1..Len(failedJobsOfRun)}])
    /\ UNCHANGED <<calls, stepped>>

\* The job listing of the current run settles; its rejection is not caught.
JobsListed ==
    /\ pc = "aggregate"
    /\ fetch.at = "jobs"
    /\ LET run == fetch.runs[fetch.run]
           f == [fetch EXCEPT !.inflight = @ \ {ListJobs(run)}]
       IN \E jobsResponse \in JobListingsOf(run) :
             IF jobsResponse.settled = "rejected"
             THEN Finish([f EXCEPT !.rejected.jobs = @ + 1], Rejected(jobsResponse.value))
             ELSE LET failedJobsOfRun ==
                          SelectSeq(jobsResponse.value.items,
                                    LAMBDA job : job.conclusion = "failure")
                  IN NextJob([f EXCEPT !.jobs = failedJobsOfRun,
                                       !.seen = @ + Len(failedJobsOfRun)])
    /\ UNCHANGED <<calls, stepped>>

\* Variant: a log request whose rejection is not caught.
LogFetchedOrRejecting ==
    /\ pc = "aggregate"
    /\ fetch.at = "logs"
    /\ LET run == fetch.runs[fetch.run]
           job == Head(fetch.jobs)
           f == [fetch EXCEPT !.inflight = @ \ {GetJobLogs(job)}, !.jobs = Tail(@)]
       IN \E logs \in LogsOf(job) :
             IF logs.settled = "resolved"
             THEN NextJob([f EXCEPT !.results =
                              Append(@, [id |-> job.id,
                                         name |-> run.name \o " / " \o job.name,
                                         conclusion |-> job.conclusion,
                                         logs |-> truncateLogs(logs.value.value,
                                                               DefaultMaxLogChars)])])
             ELSE Finish([f EXCEPT !.rejected.logs = @ + 1], Rejected(logs.value))
    /\ UNCHANGED <<calls, stepped>>

\* The log request of the current job settles: try / catch of the inner loop.
LogFetched ==
    /\ pc = "aggregate"
    /\ fetch.at = "logs"
    /\ LET run == fetch.runs[fetch.run]
           job == Head(fetch.jobs)
           f == [fetch EXCEPT !.inflight = @ \ {GetJobLogs(job)}, !.jobs = Tail(@)]
       IN \E logs \in LogsOf(job) :
             IF logs.settled = "resolved"
             THEN NextJob([f EXCEPT !.results =
                              Append(@, [id |-> job.id,
                                         name |-> run.name \o " / " \o job.name,
                                         conclusion |-> job.conclusion,
                                         logs |-> truncateLogs(logs.value.value,
                                                               DefaultMaxLogChars)])])
             ELSE NextJob([f EXCEPT !.warnings = @ + 1, !.rejected.logs = @ + 1])
    /\ UNCHANGED <<calls, stepped>>

\* The inputs of the step-by-step specification: one invocation on a pull
\* request nobody else reviews meanwhile, the payload with a commit or
\* without, the API answering with either commit, the check runs empty or
\* failed, no failed status.  The answers to getFailedJobs' requests are
\* drawn step by step.
Narrow ==
    [repeat |-> FALSE,
     priors |-> {<<>>},
     payloads |-> {Undefined, Str("sha1")},
     events |-> {"COMMENT"},
     headShas |-> {Resolved(Str("sha1")), Resolved(Str("sha2")), Rejected(ApiError)},
     checks |-> {Resolved(Arr(<<>>)), FailedCheckRuns},
     statuses |-> {Resolved(Arr(<<>>))},
     diffs |-> {Resolved(Str("diff content"))},
     gemini |-> {Rejected(ErrorObj("API quota exceeded")),
                 Generated(Text("json", RawAnalysis(Str("Bug in the code"),
                                                    <<RawComment(10, Str("RIGHT"))>>, "high")))},
     posts |-> {Resolved(Num(999))}]

InitFetch == InitOver(Narrow)
NextFetch ==
    \/ Begin(Narrow)
    \/ GetPullRequestHeadSha(Narrow)
    \/ StartGetFailedJobs
    \/ RunsListed
    \/ JobsListed
    \/ LogFetched
    \/ FetchFailedCheckRuns(Narrow)
    \/ FetchFailedCommitStatuses(Narrow)
    \/ Aggregated
    \/ CheckFingerprint
    \/ GetPullRequestDiff(Narrow)
    \/ AnalyzeFailure(Narrow)
    \/ CreatePullRequestReview(Narrow)
    \/ Return
SpecFetch == InitFetch /\ [][NextFetch]_vars

Init == InitOver(Wide)
Next == NextOver(Wide)
Spec == Init /\ [][Next]_vars

\* Successive invocations on one pull request.
InitDedup == InitOver(Lean)
NextDedup == NextOver(Lean)
SpecDedup == InitDedup /\ [][NextDedup]_vars

(***************************************************************************)
(* Properties.                                                             *)
(***************************************************************************)
NoFailuresText == ":green_circle: No CI failures detected"
AnalysisFailedText == ":warning: AI analysis of CI failures could not be completed - "
PostedText == "CI failure comment(s) posted"
PostFailedText == "CI failure(s) analyzed but review could not be posted"
NoCommentsText == "CI failures analyzed - no code changes identified as the cause"

Outcomes ==
    {"no-failures", "skipped-duplicate", "posted-with-comments", "analyzed-no-comments",
     "post-failed", "analysis-failed"}

OutcomeText(o) ==
    CASE o = "no-failures" -> NoFailuresText
      [] o = "skipped-duplicate" -> formatSkippedStatus.template
      [] o = "posted-with-comments" -> PostedText
      [] o = "analyzed-no-comments" -> NoCommentsText
      [] o = "post-failed" -> PostFailedText
      [] o = "analysis-failed" -> AnalysisFailedText

ErrorText(e) == IF e.js = "Error" THEN e.message ELSE StringOf(e)

\* C1: an invocation whose fingerprint recovered from the prior reviews equals
\* the fingerprint it computed ends as skipped-duplicate: it never fetches the
\* diff, never invokes the model, posts no review, and returns the skipped status.
C1_DedupShortCircuit ==
    (fingerprint # NullV /\ existingFp = fingerprint)
        => /\ pc = "done"
           /\ outcome = "skipped-duplicate"
           /\ status = formatSkippedStatus
           /\ calls.diff = 0 /\ calls.model = 0 /\ calls.post = 0
           /\ lastPost = NullV

C1_Witness ==
    /\ pc = "done"
    /\ fingerprint # NullV
    /\ existingFp = fingerprint
    /\ outcome = "skipped-duplicate"

\* C2: an invocation that returns ends in one of the six outcomes, and the text
\* it returns is the text of that outcome.
C2_StatusIsOutcomeText ==
    pc = "done" => /\ outcome \in Outcomes
                   /\ status.template = OutcomeText(outcome)

\* C3: when the three failure lists are all empty the invocation returns the
\* no-failures status and fetches no diff, invokes no model, posts no review.
AllSourcesEmpty ==
    /\ jobsRes.settled = "resolved" /\ jobsRes.value.items = <<>>
    /\ checksRes.settled = "resolved" /\ checksRes.value.items = <<>>
    /\ statusesRes.settled = "resolved" /\ statusesRes.value.items = <<>>

C3_NoFailuresStopsEarly ==
    AllSourcesEmpty
        => /\ pc \in {"aggregate", "done"}
           /\ calls.diff = 0 /\ calls.model = 0 /\ calls.post = 0
           /\ lastPost = NullV
           /\ pc = "done" => /\ outcome = "no-failures"
                             /\ status = StatusText(NoFailuresText, "", 0, "", "", "")

C3_Witness == AllSourcesEmpty /\ pc = "done" /\ status.template = NoFailuresText

\* C4: when the model call fails the invocation does not throw, returns the
\* analysis-failed status carrying the error's message, and posts no review.
C4_AnalysisFailedStatus ==
    caught.at = "model"
        => /\ pc = "done"
           /\ thrown = NullV
           /\ calls.post = 0 /\ lastPost = NullV
           /\ status.template = AnalysisFailedText
           /\ status.detail = ErrorText(caught.error)

\* C5: when the analysis has at least one comment and the posting call rejects,
\* the invocation does not throw and returns the could-not-be-posted status with
\* the analysis' confidence and summary.
C5_PostFailedKeepsAnalysis ==
    caught.at = "post"
        => /\ pc = "done"
           /\ thrown = NullV
           /\ Len(analysis.comments) >= 1
           /\ outcome = "post-failed"
           /\ status.template = PostFailedText
           /\ status.confidence = analysis.confidence
           /\ status.summary = analysis.summary

C5_Witness ==
    /\ caught.at = "post"
    /\ pc = "done"
    /\ analysis.confidence = "medium"
    /\ analysis.summary = "Bug in the code"

\* C6: when the analysis has n >= 1 comments and posting succeeds, the posting
\* request carried the resolved head commit, the configured event and all n
\* comments, and the status reports n comments posted and the confidence.
PostSucceeded == pc = "done" /\ calls.post = 1 /\ caught.at = "none"

C6_PostedReview ==
    PostSucceeded
        => /\ Len(analysis.comments) >= 1
           /\ lastPost.commit_id = headSha
           /\ Truthy(payloadSha) => lastPost.commit_id = payloadSha.value
           /\ lastPost.event = config.reviewEvent
           /\ Len(lastPost.comments) = Len(analysis.comments)
           /\ \A i \in 1..Len(analysis.comments) :
                 /\ lastPost.comments[i].path = analysis.comments[i].path
                 /\ lastPost.comments[i].line = analysis.comments[i].line
                 /\ lastPost.comments[i].body = analysis.comments[i].body
           /\ outcome = "posted-with-comments"
           /\ status.template = PostedText
           /\ status.count = Len(analysis.comments)
           /\ status.confidence = analysis.confidence

C6_Witness ==
    /\ PostSucceeded
    /\ Len(analysis.comments) = 2
    /\ config.reviewEvent = "REQUEST_CHANGES"
    /\ ~Truthy(payloadSha)

\* C7: when the analysis has zero comments the invocation ends as
\* analyzed-no-comments: the posting API is never called, and the status carries
\* the confidence, the no-code-change wording and the summary.
C7_NoCommentsNoPost ==
    (analysis # NullV /\ Len(analysis.comments) = 0)
        => /\ pc = "done"
           /\ outcome = "analyzed-no-comments"
           /\ calls.post = 0 /\ lastPost = NullV
           /\ status.template = NoCommentsText
           /\ status.confidence = analysis.confidence
           /\ status.summary = analysis.summary

C7_Witness ==
    /\ analysis # NullV
    /\ Len(analysis.comments) = 0
    /\ analysis.confidence = "low"
    /\ analysis.summary = "Bug in the code"
    /\ pc = "done"

LastPosted == posted[Len(posted)]

C9_PostedFingerprintSkipsNext ==
    /\ (pc = "done" /\ outcome = "posted-with-comments")
          => /\ MarkerOf(lastPost.body) = fingerprint
             /\ findExistingReviewFingerprint(reviews) = fingerprint
    /\ (posted # <<>> /\ fingerprint = LastPosted)
          => /\ pc = "done"
             /\ outcome = "skipped-duplicate"
             /\ calls.model = 0 /\ calls.post = 0

C9_Witness ==
    /\ invocations = 3
    /\ posted # <<>>
    /\ fingerprint = LastPosted
    /\ prev.outcome \in {"analysis-failed", "post-failed"}
    /\ outcome = "skipped-duplicate"

\* C9 (as stated): an invocation that computes a fingerprint some earlier
\* invocation posted ends as skipped-duplicate.
C9_AnyPostedFingerprintSkips ==
    (fingerprint # NullV /\ \E i \in 1..Len(posted) : posted[i] = fingerprint)
        => /\ pc = "done"
           /\ outcome = "skipped-duplicate"
           /\ calls.model = 0 /\ calls.post = 0

\* C10 (as amended): the fingerprint the lookup recovers changes only by a
\* successful post; and the invocation that follows one which analysed the same
\* failure state without posting is not skipped: it fetches the diff and, unless
\* that fetch rejects, invokes the model again.
Unposted == {"post-failed", "analysis-failed", "analyzed-no-comments", "thrown"}

SameAsUnposted ==
    /\ prev.outcome \in Unposted
    /\ fingerprint # NullV
    /\ fingerprint = prev.fingerprint

C10_RetriedAfterNoPost ==
    SameAsUnposted
        => /\ outcome # "skipped-duplicate"
           /\ pc \in {"diff", "model", "post", "done", "thrown"}
           /\ pc \in {"model", "post", "done", "thrown"} => calls.diff = 1
           /\ pc \in {"post", "done"} => calls.model = 1
           /\ pc = "thrown" => calls.model = 0

C10_StoredOnlyByPost ==
    findExistingReviewFingerprint(reviews') # findExistingReviewFingerprint(reviews)
        => /\ pc = "post"
           /\ outcome' = "posted-with-comments"
           /\ findExistingReviewFingerprint(reviews') = fingerprint

C11_OnlyResolutionThrows ==
    pc = "thrown"
        => /\ calls.headSha = 1
           /\ calls.jobs = 0 /\ calls.checks = 0 /\ calls.statuses = 0
           /\ calls.diff = 0

\* C12: when one of the three listing calls rejects, the invocation rejects
\* with that error, returns no status and makes no lookup, diff, model or post
\* call, whatever the other sources resolved with.
SourceRejected(r) ==
    r.settled = "rejected"
        => /\ pc = "thrown"
           /\ thrown = r.value
           /\ status = NullV
           /\ failedJobs = <<>> /\ externalFailures = <<>>
           /\ calls.reviews = 0 /\ calls.diff = 0 /\ calls.model = 0 /\ calls.post = 0

C12_ListingRejectionIsFatal ==
    /\ SourceRejected(jobsRes)
    /\ SourceRejected(checksRes)
    /\ SourceRejected(statusesRes)

C12_Witness ==
    /\ statusesRes.settled = "rejected"
    /\ jobsRes.settled = "resolved" /\ Len(jobsRes.value.items) > 0
    /\ checksRes.settled = "resolved" /\ Len(checksRes.value.items) > 0
    /\ pc = "thrown"

HeadShaRejected == calls.headSha >= 1 /\ headSha = ""

C15_ResolutionFailureIsFatal ==
    HeadShaRejected
        => /\ pc = "thrown"
           /\ thrown = ApiError
           /\ status = NullV
           /\ calls.headSha = 1
           /\ calls.jobs = 0 /\ calls.checks = 0 /\ calls.statuses = 0
           /\ calls.reviews = 0 /\ calls.diff = 0 /\ calls.model = 0 /\ calls.post = 0

C15_Witness == HeadShaRejected /\ pc = "thrown" /\ ~Truthy(payloadSha)

\* C13: in getFailedJobs a failed job whose log request rejects is left out,
\* alone: the call does not reject, and every other failed job whose log request
\* resolves is in the result, in the order of the listings.
RECURSIVE ListedJobs(_)
ListedJobs(runs) ==
    IF runs = <<>> THEN <<>>
    ELSE [i \in 1..Len(Head(runs).jobs.value.items) |->
            [run |-> Head(runs).name, job |-> Head(runs).jobs.value.items[i]]]
         \o ListedJobs(Tail(runs))

FailedWithLog(e) == e.job.conclusion = "failure" /\ e.job.logs.settled = "resolved"

AllListed(resp) ==
    /\ resp.settled = "resolved"
    /\ \A r \in 1..Len(resp.value.items) : resp.value.items[r].jobs.settled = "resolved"

C13_OnlyTheJobWithoutLogIsDropped ==
    (probe.fn = "getFailedJobs" /\ AllListed(probe.arg))
        => LET expected == SelectSeq(ListedJobs(probe.arg.value.items), FailedWithLog)
               got == probe.out.value.items
           IN /\ probe.out.settled = "resolved"
              /\ Len(got) = Len(expected)
              /\ \A i \in 1..Len(expected) :
                    /\ got[i].id = expected[i].job.id
                    /\ got[i].name = expected[i].run \o " / " \o expected[i].job.name
                    /\ got[i].conclusion = "failure"
                    /\ got[i].logs = expected[i].job.logs.value.value

C13_Witness ==
    /\ probe.fn = "getFailedJobs"
    /\ AllListed(probe.arg)
    /\ Len(probe.arg.value.items) = 2
    /\ Len(probe.arg.value.items[1].jobs.value.items) = 2
    /\ probe.arg.value.items[1].jobs.value.items[1].conclusion = "failure"
    /\ probe.arg.value.items[1].jobs.value.items[1].logs.settled = "rejected"
    /\ Len(probe.out.value.items) = 2
    /\ probe.out.value.items[1].id = 12
    /\ probe.out.value.items[2].id = 21

\* C16: the fingerprint is a 16-character string, the same for the same
\* arguments, and the same for every permutation of the jobs and every
\* permutation of the external failures.
Reorderings(n) == {f \in [1..n -> 1..n] : \A i, j \in 1..n : f[i] = f[j] => i = j}
Permuted(seq, f) == [i \in 1..Len(seq) |-> seq[f[i]]]
FingerprintCalled == probe.fn = "computeFailureFingerprint"

LogTexts == {"Error A", "Error B", "other"}
WithLogs(jobs, logs) == [i \in 1..Len(jobs) |-> [jobs[i] EXCEPT !.logs = logs[i]]]

C17_FingerprintIgnoresLogs ==
    FingerprintCalled
        => LET a == probe.arg IN
           \A logs \in [1..Len(a.jobs) -> LogTexts] :
              computeFailureFingerprint(a.sha, WithLogs(a.jobs, logs), a.ext) = probe.out

C17_Witness ==
    /\ FingerprintCalled
    /\ Len(probe.arg.jobs) = 2
    /\ probe.arg.jobs[1].logs # probe.arg.jobs[2].logs
    /\ Len(probe.arg.ext) = 1

\* C18: another commit, an added or removed job or external failure, or a job
\* or external failure with another identity, each give another fingerprint.
Without(seq, i) == SubSeq(seq, 1, i - 1) \o SubSeq(seq, i + 1, Len(seq))

CarriesMarker(review) == MarkerOf(review.body) # NullV

NothingParses(text) ==
    /\ ~JsonParses(text)
    /\ ~JsonParses(sanitizeJsonEscapes(text))
    /\ FencedBlock(text) # NullV => ~JsonParses(sanitizeJsonEscapes(FencedBlock(text)))

C20_UnparseableIsReported ==
    (/\ probe.fn = "analyzeFailure"
     /\ probe.arg.settled = "resolved"
     /\ Truthy(probe.arg.value.text)
     /\ NothingParses(probe.arg.value.text))
        => /\ probe.out.settled = "rejected"
           /\ probe.out.value = ErrorObj("Failed to parse Gemini response as JSON")


\* C21: for every analysis that fits the schema, its serialization wrapped in
\* a code fence, with or without a language tag, makes analyzeFailure return
\* exactly that analysis.
C21_FencedRoundTrip ==
    \A a \in Analyses, tagged \in BOOLEAN :
        (/\ a.summary # <<>>
         /\ probe.fn = "analyzeFailure"
         /\ probe.arg = Generated(Fenced(JsonStringify(a), tagged)))
        => probe.out = Resolved(a)


\* The texts that parse at the first attempt, and what they parse to.
ParsedDirectly == RawAnalyses \cup MalformedAnalyses

LineIsPositive(c) == c.line.js = "number" /\ c.line.value > 0

Flawed(raw) ==
    \/ raw.summary.js # "string"
    \/ ~(raw.confidence.js = "string" /\ raw.confidence.value \in {"high", "medium", "low"})
    \/ \E i \in 1..Len(raw.comments) : ~LineIsPositive(raw.comments[i])

\* C22: validation is all-or-nothing: parsed data with a missing or wrongly
\* typed field, an unknown confidence or one comment whose line is not a
\* positive integer makes analyzeFailure fail with the invalid-structure
\* error, whose detail names each such field; no analysis is returned.
C22_ValidationIsAllOrNothing ==
    \A raw \in ParsedDirectly :
        (/\ probe.fn = "analyzeFailure"
         /\ probe.arg = Generated(Text("json", raw))
         /\ Flawed(raw))
        => /\ probe.out.settled = "rejected"
           /\ probe.out.value.js = "Error"
           /\ probe.out.value.message = "Invalid Gemini response structure"
           /\ raw.summary.js # "string"
                => [key |-> "summary", index |-> 0, field |-> ""] \in probe.out.value.detail
           /\ raw.confidence.value \notin {"high", "medium", "low"}
                => [key |-> "confidence", index |-> 0, field |-> ""] \in probe.out.value.detail
           /\ \A i \in 1..Len(raw.comments) :
                ~LineIsPositive(raw.comments[i])
                  => [key |-> "comments", index |-> i, field |-> "line"]
                        \in probe.out.value.detail

\* A first comment that fits and a second whose line is below one: rejected whole.
C22_Witness ==
    /\ probe.fn = "analyzeFailure"
    /\ \E raw \in ParsedDirectly :
          /\ probe.arg = Generated(Text("json", raw))
          /\ raw.summary.js = "string"
          /\ Len(raw.comments) = 2
          /\ reviewCommentSchemaOk(raw.comments[1])
          /\ ~LineIsPositive(raw.comments[2])
    /\ probe.out.settled = "rejected"
    /\ probe.out.value.message = "Invalid Gemini response structure"
    /\ probe.out.value.detail = {[key |-> "comments", index |-> 2, field |-> "line"]}

\* C23: every analysis analyzeFailure returns has a non-empty summary.
C23_SummaryNonEmpty ==
    (probe.fn = "analyzeFailure" /\ probe.out.settled = "resolved")
    => IF probe.arg.value.text.form = "chars"
       THEN probe.out.value.summary # <<>>
       ELSE probe.out.value.summary # ""

EmptyTexts == {Str(""), NullV, Undefined}

\* C24: when the text of the model's answer is empty, null or undefined,
\* analyzeFailure fails with the empty-response error, and it has made no
\* parse or validation attempt.
C24_EmptyResponse ==
    (/\ probe.fn = "analyzeFailure"
     /\ probe.arg.settled = "resolved"
     /\ probe.arg.value.text \in EmptyTexts)
    => /\ probe.out = Rejected(ErrorObj("Gemini returned an empty response"))
       /\ probe.attempts = <<>>

C24_Witness ==
    /\ probe.fn = "analyzeFailure"
    /\ probe.arg = Generated(Undefined)
    /\ probe.out = Rejected(ErrorObj("Gemini returned an empty response"))
    /\ probe.attempts = <<>>


\* C25: nothing is retried: within one invocation the model is invoked at
\* most once and the review-posting call is made at most once, whatever the
\* calls settle with.
C25_NothingIsRetried ==
    /\ calls.model <= 1
    /\ calls.post <= 1
    /\ [at |-> caught.at, model |-> calls.model, post |-> calls.post]
          \in {[at |-> "none", model |-> m, post |-> p] : m \in {0, 1}, p \in {0, 1}}
              \cup {[at |-> "model", model |-> 1, post |-> 0],
                    [at |-> "post", model |-> 1, post |-> 1]}

\* The posting call rejected after the model answered: each was made once.
C25_Witness ==
    /\ pc = "done"
    /\ outcome = "post-failed"
    /\ caught.at = "post"
    /\ calls.model = 1
    /\ calls.post = 1

AllFetched ==
    /\ jobsRes.settled = "resolved"
    /\ checksRes.settled = "resolved"
    /\ statusesRes.settled = "resolved"

\* C26: the steps after aggregation are strictly ordered: the review lookup
\* is made only when all three fetches have resolved, the diff request only
\* after a lookup that found no matching fingerprint, the model call only
\* after the diff request resolved, and the posting call only after the
\* model returned a validated analysis.
C26_StepsAreOrdered ==
    [][/\ calls'.reviews > calls.reviews => AllFetched /\ calls.diff = 0
       /\ calls'.diff > calls.diff
            => /\ calls.reviews = 1
               /\ fingerprint # NullV
               /\ existingFp # fingerprint
               /\ calls.model = 0
       /\ calls'.model > calls.model
            => calls.diff = 1 /\ thrown = NullV /\ analysis = NullV /\ calls.post = 0
       /\ calls'.post > calls.post
            => /\ calls.model = 1
               /\ analysis.js = "object"
               /\ geminiReviewResponseSchemaOk(
                     RawAnalysis(Str(analysis.summary),
                                 [i \in 1..Len(analysis.comments) |->
                                    [path |-> Str(analysis.comments[i].path),
                                     line |-> Num(analysis.comments[i].line),
                                     side |-> Str(analysis.comments[i].side),
                                     body |-> Str(analysis.comments[i].body)]],
                                 analysis.confidence))]_vars

\* Every step was made, each once: lookup, diff, model, post.
C26_Witness ==
    /\ pc = "done"
    /\ outcome = "posted-with-comments"
    /\ calls.reviews = 1 /\ calls.diff = 1 /\ calls.model = 1 /\ calls.post = 1
    /\ AllFetched
    /\ existingFp # fingerprint

Merged == pc \in {"fingerprint", "diff", "model", "post"}

\* C27: each of the three sources has its own result, and they are merged
\* only when all three have resolved: whatever order the fetches finish in,
\* the failed jobs are the job source's list and the external failures are
\* the check-run failures followed by the commit-status failures.
C27_MergedInSourceOrder ==
    /\ (failedJobs # <<>> \/ externalFailures # <<>> \/ Merged)
          => /\ AllFetched
             /\ failedJobs = jobsRes.value.items
             /\ externalFailures = checksRes.value.items \o statusesRes.value.items
    /\ (pc = "aggregate") => (failedJobs = <<>> /\ externalFailures = <<>>)

\* Jobs, check-runs and statuses all failed, and the three lists were merged.
C27_Witness ==
    /\ Merged
    /\ Len(failedJobs) > 0
    /\ Len(checksRes.value.items) > 0
    /\ Len(statusesRes.value.items) > 0
    /\ externalFailures = checksRes.value.items \o statusesRes.value.items
    /\ externalFailures[1].source = "check-run"
    /\ externalFailures[Len(externalFailures)].source = "status"


\* The places in the output where a listed job is found.
PlacesOf(got, id) == {i \in 1..Len(got) : got[i].id = id}

\* C28: getFailedJobs returns exactly one entry for each job of a failed run
\* that concluded 'failure' and whose log request resolved, named
\* '<run> / <job>' with conclusion 'failure', in run order and then job
\* order; a job with another conclusion is never in it, and no failed run or
\* no failed job gives the empty list, not an error.
C28_ExactlyTheFailedJobsWithLogs ==
    (probe.fn = "getFailedJobs" /\ AllListed(probe.arg))
        => LET listed == ListedJobs(probe.arg.value.items)
               got == probe.out.value.items
           IN /\ probe.out.settled = "resolved"
              /\ \A k \in 1..Len(listed) :
                    Cardinality(PlacesOf(got, listed[k].job.id))
                        = (IF FailedWithLog(listed[k]) THEN 1 ELSE 0)
              /\ \A i \in 1..Len(got) :
                    /\ got[i].conclusion = "failure"
                    /\ \E k \in 1..Len(listed) :
                          /\ listed[k].job.id = got[i].id
                          /\ listed[k].job.conclusion = "failure"
                          /\ got[i].name = listed[k].run \o " / " \o listed[k].job.name
              /\ \A i, j \in 1..Len(got) :
                    i < j => \E k, l \in 1..Len(listed) :
                                /\ k < l
                                /\ listed[k].job.id = got[i].id
                                /\ listed[l].job.id = got[j].id
              /\ (\A k \in 1..Len(listed) : listed[k].job.conclusion # "failure")
                    => probe.out = Resolved(Arr(<<>>))

\* Two failed runs: the first with a job that timed out and a job that
\* failed, the second with a job that failed; the two failed jobs come back.
C28_Witness ==
    /\ probe.fn = "getFailedJobs"
    /\ AllListed(probe.arg)
    /\ Len(probe.arg.value.items) = 2
    /\ LET listed == ListedJobs(probe.arg.value.items) IN
       /\ Len(listed) = 3
       /\ listed[1].job.conclusion = "timed_out"
       /\ \A k \in {2, 3} : FailedWithLog(listed[k])
    /\ Len(probe.out.value.items) = 2
    /\ probe.out.value.items[1].name = "CI / test"
    /\ probe.out.value.items[2].name = "Lint / build"


\* The place in the output of the entry at place i of the input, given the
\* places that are kept.
RankIn(kept, i) == Cardinality({j \in kept : j <= i})

\* C29: getFailedCheckRuns returns, in input order, exactly the check-runs
\* whose conclusion is 'failure' and whose app is not github-actions; each
\* result has source 'check-run', the run's summary as description when it
\* has one (a non-empty text) and 'Check run from <app>' otherwise, and the
\* details URL or the empty string as url.
C29_FailedExternalCheckRuns ==
    (probe.fn = "getFailedCheckRuns" /\ probe.arg.settled = "resolved")
        => LET runs == probe.arg.value.items
               got == probe.out.value.items
               kept == {i \in 1..Len(runs) :
                          runs[i].conclusion = "failure" /\ runs[i].app # "github-actions"}
           IN /\ probe.out.settled = "resolved"
              /\ Len(got) = Cardinality(kept)
              /\ \A i \in kept :
                    LET e == got[RankIn(kept, i)] IN
                    /\ e.name = runs[i].name
                    /\ e.source = "check-run"
                    /\ e.description =
                          (IF runs[i].summary \in {NullV, Undefined, Str("")}
                           THEN "Check run from " \o runs[i].app
                           ELSE runs[i].summary.value)
                    /\ e.url = (IF runs[i].details_url \in {NullV, Undefined} THEN ""
                                ELSE runs[i].details_url.value)

\* A failed check-run of github-actions ahead of a failed one of another app
\* without summary and URL: only the second comes back, with the fallbacks.
C29_Witness ==
    /\ probe.fn = "getFailedCheckRuns"
    /\ probe.arg.settled = "resolved"
    /\ Len(probe.arg.value.items) = 2
    /\ probe.arg.value.items[1].conclusion = "failure"
    /\ probe.arg.value.items[1].app = "github-actions"
    /\ probe.out = Resolved(Arr(<<[name |-> "check-2",
                                   description |-> "Check run from packit-as-a-service",
                                   url |-> "", source |-> "check-run"]>>))

\* C30: getFailedCommitStatuses returns, in input order, exactly the statuses
\* whose state is 'failure' or 'error'; each result has source 'status',
\* and its description and url fall back to the empty string.
C30_FailedAndErroredStatuses ==
    (probe.fn = "getFailedCommitStatuses" /\ probe.arg.settled = "resolved")
        => LET statuses == probe.arg.value.items
               got == probe.out.value.items
               kept == {i \in 1..Len(statuses) : statuses[i].state \in {"failure", "error"}}
           IN /\ probe.out.settled = "resolved"
              /\ Len(got) = Cardinality(kept)
              /\ \A i \in kept :
                    LET e == got[RankIn(kept, i)] IN
                    /\ e.name = statuses[i].context
                    /\ e.source = "status"
                    /\ e.description =
                          (IF statuses[i].description \in {NullV, Undefined} THEN ""
                           ELSE statuses[i].description.value)
                    /\ e.url = (IF statuses[i].target_url \in {NullV, Undefined} THEN ""
                                ELSE statuses[i].target_url.value)

\* An errored status without description and URL ahead of a failed one: both
\* come back, in that order.
C30_Witness ==
    /\ probe.fn = "getFailedCommitStatuses"
    /\ probe.out = Resolved(Arr(
          <<[name |-> "ci/one", description |-> "", url |-> "", source |-> "status"],
            [name |-> "ci/two", description |-> "Build failed",
             url |-> "http://ci.example.com", source |-> "status"]>>))
    /\ probe.arg.value.items[1].state = "error"
    /\ probe.arg.value.items[2].state = "failure"

(***************************************************************************)
(* C31: truncateLogs keeps the tail.  A log of at most N characters is    *)
(* returned unchanged; a longer one becomes the marker followed by        *)
(* exactly its last N characters, so the result ends with the log's last  *)
(* character.                                                             *)
(***************************************************************************)
C31_TruncateLogsKeepsTail ==
    probe.fn = "truncateLogs" =>
        LET logs == probe.arg.logs
            N    == probe.arg.maxChars
            out  == probe.out
        IN  IF Len(logs) <= N THEN out = logs
            ELSE /\ Len(out) = N + 1
                 /\ out[1] = LogsMarker(N)
                 /\ \A i \in 1..N : out[i + 1] = logs[Len(logs) - N + i]
                 /\ out[Len(out)] = logs[Len(logs)]

\* A log longer than the limit whose head differs from its tail was cut.
C31_Witness ==
    /\ probe.fn = "truncateLogs"
    /\ probe.arg.logs = <<"a", "b", "c">>
    /\ probe.arg.maxChars = 2
    /\ probe.out = <<LogsMarker(2), "b", "c">>

(***************************************************************************)
(* C32: truncateDiff keeps the head.  A diff of at most N characters, one *)
(* of exactly N included, is returned unchanged; a longer one becomes     *)
(* exactly its first N characters followed by the marker, and nothing of  *)
(* the diff beyond position N is in the result.                           *)
(***************************************************************************)
C32_TruncateDiffKeepsHead ==
    probe.fn = "truncateDiff" =>
        LET diff == probe.arg.diff
            N    == probe.arg.maxChars
            out  == probe.out
        IN  IF Len(diff) <= N THEN out = diff
            ELSE /\ Len(out) = N + 1
                 /\ \A i \in 1..N : out[i] = diff[i]
                 /\ out[N + 1] = DiffMarker(N)
                 /\ \A i \in (N + 1)..Len(diff) :
                        (\A k \in 1..N : diff[k] # diff[i])
                            => \A k \in 1..Len(out) : out[k] # diff[i]

\* A diff of distinct characters, one longer than the limit, lost its last one.
C32_Witness ==
    /\ probe.fn = "truncateDiff"
    /\ probe.arg.diff = <<"a", "b", "c">>
    /\ probe.arg.maxChars = 2
    /\ probe.out = <<"a", "b", DiffMarker(2)>>

(***************************************************************************)
(* C39: the escape repair leaves alone a text in which every backslash    *)
(* starts a legal escape sequence, an escaped backslash followed by any   *)
(* character included.                                                    *)
(***************************************************************************)
\* Read from the left as JSON reads a string: a backslash and the character
\* after it form one escape sequence, legal when that character is legal.
RECURSIVE EveryEscapeLegal(_)
EveryEscapeLegal(chars) ==
    IF chars = <<>> THEN TRUE
    ELSE IF chars[1] = Backslash
         THEN /\ Len(chars) >= 2
              /\ chars[2] \in LegalEscapes
              /\ EveryEscapeLegal(SubSeq(chars, 3, Len(chars)))
         ELSE EveryEscapeLegal(Tail(chars))

C39_LegalEscapesUntouched ==
    (/\ probe.fn = "sanitizeJsonEscapes"
     /\ EveryEscapeLegal(probe.arg.chars))
        => probe.out = probe.arg

(***************************************************************************)
(* C33: whatever the model call rejects with, the returned status is the  *)
(* analysis-failed one; the no-failures text is returned only by an       *)
(* invocation whose three failure lists are all empty.                    *)
(***************************************************************************)
C33_NoFailuresOnlyWhenEmpty ==
    /\ (pc = "done" /\ caught.at = "model")
           => status.template # NoFailuresText
    /\ (pc = "done" /\ status # NullV /\ status.template = NoFailuresText)
           => AllSourcesEmpty

(***************************************************************************)
(* C36: the no-failures decision looks at the combined set.  With no      *)
(* failed job but at least one failed check run or status the invocation  *)
(* is not a no-failures run: it goes on to the diff fetch and, the diff   *)
(* fetched, to the model.                                                 *)
(***************************************************************************)
OnlyExternalFailures ==
    /\ pc \in {"fingerprint", "diff", "model", "post", "done", "thrown"}
    /\ jobsRes.settled = "resolved" /\ jobsRes.value.items = <<>>
    /\ checksRes.settled = "resolved" /\ statusesRes.settled = "resolved"
    /\ checksRes.value.items \o statusesRes.value.items # <<>>
    /\ failedJobs = <<>>
    /\ externalFailures = checksRes.value.items \o statusesRes.value.items

C36_ExternalFailuresCount ==
    OnlyExternalFailures =>
        /\ outcome # "no-failures"
        /\ (pc \in {"model", "post", "done", "thrown"} /\ outcome # "skipped")
               => calls.diff = 1
        /\ (pc \in {"post", "done"} /\ outcome # "skipped") => calls.model = 1

\* No failed job, a failed status: the model was asked and answered.
C36_Witness ==
    /\ OnlyExternalFailures
    /\ checksRes.value.items = <<>>
    /\ pc = "done"
    /\ calls.diff = 1 /\ calls.model = 1
    /\ analysis # NullV

(***************************************************************************)
(* C38: the head commit is resolved once per invocation and never changes *)
(* afterwards: the three aggregation queries are asked about that commit  *)
(* and a posted review carries it as commit_id, whatever the pull         *)
(* request's head is by then.                                             *)
(***************************************************************************)
Queries == {"jobs", "checks", "statuses"}
HeadResolved == pc \in {"aggregate", "fingerprint", "diff", "model", "post", "done"}

C38_HeadCommitIsFixed ==
    [][/\ (HeadResolved /\ pc' # "idle") => headSha' = headSha
       /\ HeadResolved'
            => /\ calls'.headSha = (IF Truthy(payloadSha') THEN 0 ELSE 1)
               /\ Truthy(payloadSha') => headSha' = payloadSha'.value
               /\ \A q \in Queries :
                     /\ calls'[q] <= 1
                     /\ calls'[q] = 1 => calls'.ref[q] = headSha'
               /\ calls'.post <= 1
               /\ calls'.post = 1 => lastPost'.commit_id = headSha']_vars

\* The payload had no commit, the API answered sha2: the three queries asked
\* about sha2 and the review was posted on it.
C38_Witness ==
    /\ pc = "done"
    /\ ~Truthy(payloadSha)
    /\ headSha = "sha2"
    /\ calls.headSha = 1
    /\ \A q \in Queries : calls[q] = 1 /\ calls.ref[q] = "sha2"
    /\ calls.post = 1 /\ lastPost.commit_id = "sha2"

(***************************************************************************)
(* C37: within getFailedJobs all requests are sequential.  At most one    *)
(* request is in flight; a request is issued only when the one before it  *)
(* has settled; the job listing of the next run is asked for only when no *)
(* failed job of the current run is left without its log request settled, *)
(* and a job's log is asked for only as the first job still left.         *)
(***************************************************************************)
Issued == fetch'.inflight \ fetch.inflight

C37_RequestsAreSequential ==
    [][/\ Cardinality(fetch'.inflight) <= 1
       /\ \A request \in Issued :
             /\ fetch.inflight \cap fetch'.inflight = {}
             /\ request.route = JobsRoute
                   => /\ fetch.at = "logs" => Len(fetch.jobs) = 1
                      /\ fetch'.jobs = <<>>
             /\ request.route = LogsRoute
                   => /\ fetch'.jobs # <<>>
                      /\ request = GetJobLogs(Head(fetch'.jobs))
                      /\ fetch.at = "logs" => fetch'.jobs = Tail(fetch.jobs)]_vars

\* The second run's jobs are being asked for after both failed jobs of the
\* first run had their log requests settled, one of them rejected.
C37_Witness ==
    /\ fetch.at = "jobs"
    /\ fetch.run = 2
    /\ fetch.inflight = {ListJobs(fetch.runs[2])}
    /\ fetch.seen = 2
    /\ fetch.warnings = 1
    /\ Len(fetch.results) = 1

(***************************************************************************)
(* C34: a rejected job listing of one run is not swallowed.  getFailedJobs *)
(* rejects with it, whatever it had collected from earlier runs, and the  *)
(* invocation aborts; a rejected log request alone never rejects          *)
(* getFailedJobs.                                                         *)
(***************************************************************************)
C34_JobListingRejectionIsFatal ==
    /\ fetch.rejected.jobs > 0
          => /\ fetch.at = "settled"
             /\ jobsRes = Rejected(ApiError)
             /\ pc = "thrown" /\ thrown = ApiError
             /\ status = NullV
             /\ calls.diff = 0 /\ calls.model = 0 /\ calls.post = 0
    /\ (fetch.rejected.logs > 0 /\ fetch.rejected.jobs = 0 /\ fetch.rejected.runs = 0)
          => /\ jobsRes.settled # "rejected"
             /\ fetch.warnings = fetch.rejected.logs
             /\ fetch.at = "settled" => jobsRes = Resolved(Arr(fetch.results))

\* The first run gave one job with its log and one without; the second run's
\* job listing rejected and the invocation is over, thrown.
C34_Witness ==
    /\ fetch.rejected.jobs = 1
    /\ fetch.run = 2
    /\ Len(fetch.results) = 1
    /\ fetch.warnings = 1
    /\ jobsRes = Rejected(ApiError)
    /\ pc = "thrown"

(***************************************************************************)
(* C35: when the log request of every failed job rejects and neither the  *)
(* check runs nor the statuses hold a failure, the aggregated set is      *)
(* empty and the invocation ends as no-failures: no diff is fetched, the  *)
(* model is not invoked, no review is posted.                             *)
(***************************************************************************)
EveryLogRejected ==
    /\ fetch.at = "settled"
    /\ fetch.rejected.runs = 0 /\ fetch.rejected.jobs = 0
    /\ fetch.seen > 0
    /\ fetch.rejected.logs = fetch.seen

NoExternalFailure ==
    /\ checksRes.settled = "resolved" /\ checksRes.value.items = <<>>
    /\ statusesRes.settled = "resolved" /\ statusesRes.value.items = <<>>

C35_AllLogsLostIsNoFailures ==
    (EveryLogRejected /\ NoExternalFailure)
        => /\ jobsRes = Resolved(Arr(<<>>))
           /\ pc \in {"aggregate", "done"}
           /\ calls.diff = 0 /\ calls.model = 0 /\ calls.post = 0
           /\ lastPost = NullV
           /\ pc = "done" => /\ outcome = "no-failures"
                              /\ failedJobs = <<>> /\ externalFailures = <<>>
                              /\ status.template = NoFailuresText

\* Two runs with three failed jobs between them, every log request rejected:
\* the invocation returned the no-failures status.
C35_Witness ==
    /\ EveryLogRejected /\ NoExternalFailure
    /\ Len(fetch.runs) = 2
    /\ fetch.seen = 3
    /\ fetch.warnings = 3
    /\ pc = "done"
    /\ outcome = "no-failures"

\* The step-by-step getFailedJobs settles with what getFailedJobs, given the
\* same answers at once, settles with.
StepsAgreeWithGetFailedJobs ==
    fetch.at = "settled" => jobsRes \in {getFailedJobs(resp) : resp \in JobsListings}

====
